---- MODULE Spec2Model ----
(***************************************************************************)
(* Reading sessions of om-txt-reader (TxtReaderProvider in extension.ts)   *)
(* and the sidecar persistence of BookConfigManager (bookConfig.ts).       *)
(*                                                                         *)
(* One source document and its sidecar are modelled.  Handlers run to      *)
(* completion; an await on file I/O ends a step, and the I/O completes in  *)
(* a later step of its own, in any order with respect to other I/O.        *)
(* Variables whose comment starts with "history:" record what happened and *)
(* are never read by the modelled code.                                    *)
(***************************************************************************)
EXTENDS Integers, Sequences, FiniteSets, TLC

\* ------------------------------------------------------------------ bounds
MaxSessions == 2      \* providers created by aReader.openBook
MaxLines == 2         \* lines of the longest source file
MaxEvents == 2        \* navigation calls and updateProgress messages, in total

\* ------------------------------------------------------- program constants
DefaultScrollStep == 3     \* config.get<number>('scrollStep', 3)

Sessions == 1..MaxSessions
ScrollSteps == {1, DefaultScrollStep}
JumpTargets == {0 - 1, 0, MaxLines - 1, MaxLines}

Min(a, b) == IF a < b THEN a ELSE b
Max(a, b) == IF a > b THEN a ELSE b

\* ------------------------------------------------------------- file content
\* A byte is a token: the ASCII ones stand for themselves, HighByte for a
\* byte that is not valid UTF-8 anywhere (0xFE), Utf8Lead and Utf8Cont for the
\* two bytes of a character encoded in UTF-8 (0xC3 0xA9).
LF == "\n"
HighByte == "hi"
Utf8Lead == "c3"
Utf8Cont == "a9"
Replacement == "?"
HighBytes == {HighByte, Utf8Lead, Utf8Cont}

SampleLines == << <<"#", "a">>, <<"a", "\r">>, <<" ", "#", " ">>, <<HighByte>> >>

RECURSIVE FileOfLines(_)
FileOfLines(n) ==
    IF n = 1 THEN SampleLines[1]
    ELSE FileOfLines(n - 1) \o <<LF>> \o SampleLines[((n - 1) % Len(SampleLines)) + 1]

\* The byte contents the source file can have: the shortest and the longest.
Files == { FileOfLines(1), FileOfLines(MaxLines) }

\* new TextDecoder('utf-8', { fatal: true }).decode(buffer) throws unless the
\* bytes are well-formed UTF-8.
ValidUtf8(buffer) ==
    \A i \in 1..Len(buffer) :
        /\ buffer[i] # HighByte
        /\ buffer[i] = Utf8Lead => (i < Len(buffer) /\ buffer[i + 1] = Utf8Cont)
        /\ buffer[i] = Utf8Cont => (i > 1 /\ buffer[i - 1] = Utf8Lead)

\* A UTF-8 decoder that does not throw: a well-formed sequence is its
\* character, every other high byte the replacement character.
RECURSIVE Utf8Decode(_)
Utf8Decode(buffer) ==
    IF buffer = <<>> THEN <<>>
    ELSE IF buffer[1] = Utf8Lead /\ Len(buffer) >= 2 /\ buffer[2] = Utf8Cont
    THEN <<"u+e9">> \o Utf8Decode(SubSeq(buffer, 3, Len(buffer)))
    ELSE IF buffer[1] \in HighBytes THEN <<Replacement>> \o Utf8Decode(Tail(buffer))
    ELSE <<buffer[1]>> \o Utf8Decode(Tail(buffer))

\* new TextDecoder('gbk').decode(buffer): a high byte and a trail byte (a high
\* byte or an ASCII byte from 0x40 on) are one character; a high byte before
\* anything else is the replacement character and the next byte is read again.
GbkTrail(byte) == byte \in HighBytes \cup {"a", "A"}
RECURSIVE GbkDecode(_)
GbkDecode(buffer) ==
    IF buffer = <<>> THEN <<>>
    ELSE IF buffer[1] \in HighBytes
    THEN (IF Len(buffer) >= 2 /\ GbkTrail(buffer[2])
          THEN <<"gbk+" \o buffer[1] \o buffer[2]>>
                   \o GbkDecode(SubSeq(buffer, 3, Len(buffer)))
          ELSE <<Replacement>> \o GbkDecode(Tail(buffer)))
    ELSE <<buffer[1]>> \o GbkDecode(Tail(buffer))

\* The encoding labels the runtime's TextDecoder knows: new TextDecoder('gbk')
\* throws a RangeError on a runtime built without the legacy encodings.
\* VS Code's runtime knows them all.
AllLabels == {"utf-8", "gbk"}
LabelSets == {{"utf-8"}, AllLabels}

\* Mutant of decodeBuffer: GBK is tried before UTF-8.
decodeBuffer_GbkFirst(buffer, labels) ==
    IF "gbk" \in labels THEN GbkDecode(buffer)
    ELSE Utf8Decode(buffer)

\* decodeBuffer: strict UTF-8; if that throws GBK; if that throws the default
\* decoder, which is UTF-8 and does not throw.
decodeBuffer(buffer, labels) ==
    IF ValidUtf8(buffer) THEN Utf8Decode(buffer)
    ELSE IF "gbk" \in labels THEN GbkDecode(buffer)
    ELSE Utf8Decode(buffer)

\* content.split('\n')
RECURSIVE Split(_)
Split(text) ==
    IF \A i \in 1..Len(text) : text[i] # LF THEN <<text>>
    ELSE LET k == CHOOSE i \in 1..Len(text) :
                      text[i] = LF /\ \A j \in 1..(i - 1) : text[j] # LF
         IN <<SubSeq(text, 1, k - 1)>> \o Split(SubSeq(text, k + 1, Len(text)))

\* String.prototype.trim on a line
IsSpace(c) == c \in {" ", "\r", LF}
RECURSIVE trim(_)
trim(line) ==
    IF line = <<>> THEN line
    ELSE IF IsSpace(line[1]) THEN trim(Tail(line))
    ELSE IF IsSpace(line[Len(line)]) THEN trim(SubSeq(line, 1, Len(line) - 1))
    ELSE line

\* ------------------------------------------------------------------ chapters
\* A pattern is "^#", the empty pattern, or one literal character; "(" is
\* rejected by new RegExp.
NoPattern == "undefined"
EmptyPattern == ""
BadPattern == "("
DefaultPattern == "^#"          \* defaultChapterPattern when the extension starts
Patterns == {"^#", "#", "a", EmptyPattern, BadPattern}
\* The patterns typed into the per-document input box, and those saved as the
\* global default on the settings page.
PatternInputs == {"a"}
SettingsPatterns == {BadPattern}
Compiles(patternStr) == patternStr # BadPattern
Test(patternStr, line) ==
    IF patternStr = "^#" THEN line # <<>> /\ line[1] = "#"
    ELSE IF patternStr = EmptyPattern THEN TRUE
    ELSE \E i \in 1..Len(line) : line[i] = patternStr

\* Mutant of ScanFrom: chapters carry the 1-based line number.
RECURSIVE ScanFrom_OneBased(_, _, _)
ScanFrom_OneBased(ls, patternStr, i) ==
    IF i > Len(ls) THEN <<>>
    ELSE (IF Test(patternStr, trim(ls[i]))
          THEN <<[name |-> trim(ls[i]), line |-> i]>> ELSE <<>>)
         \o ScanFrom_OneBased(ls, patternStr, i + 1)

\* Mutant of ScanFrom: the pattern is tried on the untrimmed line.
RECURSIVE ScanFrom_TestsRaw(_, _, _)
ScanFrom_TestsRaw(ls, patternStr, i) ==
    IF i > Len(ls) THEN <<>>
    ELSE (IF Test(patternStr, ls[i])
          THEN <<[name |-> trim(ls[i]), line |-> i - 1]>> ELSE <<>>)
         \o ScanFrom_TestsRaw(ls, patternStr, i + 1)

RECURSIVE ScanFrom(_, _, _)
ScanFrom(ls, patternStr, i) ==
    IF i > Len(ls) THEN <<>>
    ELSE (IF Test(patternStr, trim(ls[i]))
          THEN <<[name |-> trim(ls[i]), line |-> i - 1]>> ELSE <<>>)
         \o ScanFrom(ls, patternStr, i + 1)

\* ------------------------------------------------------------------- sidecar
\* A sidecar content and a loadConfig result are records of one shape; kind
\* tells a parsed BookConfig from a missing file, an unparsable one and null.
BookConfig(p, t, cp) ==
    [kind |-> "config", progress |-> p, totalLines |-> t, chapterPattern |-> cp]
NoConfig(k) == [kind |-> k, progress |-> 0, totalLines |-> 0, chapterPattern |-> "undefined"]
Absent == NoConfig("absent")
Corrupt == NoConfig("corrupt")
Null == NoConfig("null")
\* A sidecar that exists and that readFile refuses to read, and one that a
\* failed writeFile left behind: flag 'w' empties the file when it opens it.
Unreadable == NoConfig("unreadable")
Truncated == NoConfig("truncated")
\* What an earlier run left in the sidecar: a position inside the longest file,
\* or one past its end (the file has shrunk since).
StoredConfigs == { BookConfig(p, MaxLines + 1, NoPattern) : p \in {1, MaxLines} }

\* --------------------------------------------------------------------- paths
\* A path is a directory and a file name; a file name is the sequence of its
\* dot-separated parts ("b.md.txt" is <<"b", "md", "txt">>).
Path(dir, name) == [dir |-> dir, name |-> name]
NoPath == Path("", <<>>)
Doc == Path("d", <<"b", "txt">>)       \* the document the sessions of Spec read

dirname(p) == p.dir
\* path.basename(p, '.' + ext): the name, without its last part if that is ext
\* (and is not the whole name).
basename(p, ext) ==
    IF Len(p.name) >= 2 /\ p.name[Len(p.name)] = ext
    THEN SubSeq(p.name, 1, Len(p.name) - 1)
    ELSE p.name
join(dir, name) == Path(dir, name)

\* BookConfigManager.getConfigPath
getConfigPath(txtFilePath) ==
    join(dirname(txtFilePath), Append(basename(txtFilePath, "txt"), "json"))

\* ---------------------------------------------------------------------- time
\* An instant is a day of January 2026.  FirstDay is the day the extension
\* starts; what an earlier run stored carries the day before.
FirstDay == 2
DayBefore == FirstDay - 1
LastDay == FirstDay + MaxEvents
Days == DayBefore..LastDay

\* Date.prototype.toISOString, and new Date(text).getTime() which reads it back.
toISOString(time) == "2026-01-0" \o ToString(time) \o "T00:00:00.000Z"
getTime(text) == CHOOSE time \in Days : toISOString(time) = text

VARIABLES
    readerProvider,   \* the module-level provider of extension.ts, 0 = undefined
    pc,               \* per session: where show() stands
    lines,            \* per session: this.lines
    currentLine,      \* per session: this.currentLine
    chapters,         \* per session: this.chapters
    bookConfig,       \* per session: this.bookConfig
    saveProgressTimer,\* per session: number of timeouts still to fire
    sidecar,          \* content of the sidecar file
    defaultChapterPattern, \* the aReader.defaultChapterPattern setting
    fileUri,          \* per session: this.fileUri.fsPath, the document's path
    configPath,       \* per session: the sidecar path its latest
                      \*   BookConfigManager call derived, NoPath before any
    now,              \* the clock new Date() reads, in days of January 2026
    dirEntries,       \* what readdir finds in the aReader.booksDirectory folder
    aReaderActive,    \* the aReaderActive context key, which enables the reader's
                      \*   scroll and search keybindings
    io,               \* BookConfigManager.updateProgress calls in flight
    lastOp,           \* history: the handler or completion that ran last; arg is
                      \*   the position before a scroll, the argument of a jump or
                      \*   report, the progress of a started or completed write
    lastReport,       \* history: argument of the session's latest updateProgress
    navSince,         \* history: positions set by navigation since that call
    burstCalls,       \* history: updateProgress calls since the timer was last idle
    burstWrites,      \* history: timer writes started since the latest such call
    closeSnap,        \* history: the session's state when its panel closed
    resumeDue,        \* history: position a completed close flush left for this open
    nEvents           \* history: navigation calls and updateProgress messages so far

vars == <<readerProvider, pc, lines, currentLine, chapters, bookConfig,
          saveProgressTimer, sidecar, defaultChapterPattern, fileUri, configPath, now, dirEntries,
          aReaderActive, io, lastOp, lastReport, navSince,
          burstCalls, burstWrites, closeSnap, resumeDue, nEvents>>

sessionVars == <<pc, lines, currentLine, chapters, bookConfig, saveProgressTimer>>
historyVars == <<lastReport, navSince, burstCalls, burstWrites, closeSnap, resumeDue,
                 nEvents>>

Op(name, s, arg) == [op |-> name, sid |-> s, arg |-> arg]

Init ==
    /\ readerProvider = 0
    /\ pc = [s \in Sessions |-> "new"]
    /\ lines = [s \in Sessions |-> <<>>]
    /\ currentLine = [s \in Sessions |-> 0]
    /\ chapters = [s \in Sessions |-> <<>>]
    /\ bookConfig = [s \in Sessions |-> Null]
    /\ saveProgressTimer = [s \in Sessions |-> 0]
    /\ sidecar \in {Absent, Corrupt} \cup StoredConfigs
    /\ defaultChapterPattern = DefaultPattern
    /\ fileUri = [s \in Sessions |-> Doc]
    /\ configPath = [s \in Sessions |-> getConfigPath(Doc)]
    /\ now = FirstDay
    /\ dirEntries = <<>>
    /\ aReaderActive = FALSE
    /\ io = <<>>
    /\ lastOp = Op("init", 0, 0)
    /\ lastReport = [s \in Sessions |-> {}]
    /\ navSince = [s \in Sessions |-> {}]
    /\ burstCalls = [s \in Sessions |-> 0]
    /\ burstWrites = [s \in Sessions |-> 0]
    /\ closeSnap = [s \in Sessions |-> {}]
    /\ resumeDue = [s \in Sessions |-> {}]
    /\ nEvents = 0

\* ----------------------------------------------------------- BookConfigManager
\* loadConfig's result for a sidecar content: JSON.parse throws on a corrupt one.
Parse(content) == IF content \in {Absent, Corrupt} THEN Null ELSE content

\* Mutant of WithProgress: an existing config keeps its stored progress.
WithProgress_KeepsStored(config, progress, totalLines) ==
    IF config = Null
    THEN BookConfig(progress, totalLines, NoPattern)
    ELSE [config EXCEPT !.totalLines = totalLines]

\* updateProgress after loadConfig returned config: the record handed to saveConfig.
WithProgress(config, progress, totalLines) ==
    IF config = Null
    THEN BookConfig(progress, totalLines, NoPattern)
    ELSE [config EXCEPT !.progress = progress, !.totalLines = totalLines]

\* BookConfigManager.updateProgress up to its first await on file I/O:
\* existsSync is synchronous, so without a sidecar the call goes straight on
\* to saveConfig's writeFile.
StartUpdate(s, origin, progress, totalLines) ==
    IF sidecar = Absent
    THEN [at |-> "write", sid |-> s, origin |-> origin, progress |-> progress,
          totalLines |-> totalLines, pattern |-> NoPattern,
          config |-> WithProgress(Null, progress, totalLines)]
    ELSE [at |-> "read", sid |-> s, origin |-> origin, progress |-> progress,
          totalLines |-> totalLines, pattern |-> NoPattern, config |-> Null]

\* updateChapterPattern after loadConfig returned config: the record handed to
\* saveConfig.  A synthesized config has progress 0 and totalLines 0.
WithPattern(config, pattern) ==
    IF config = Null
    THEN BookConfig(0, 0, pattern)
    ELSE [config EXCEPT !.chapterPattern = pattern]

\* BookConfigManager.updateChapterPattern up to its first await on the sidecar:
\* without a sidecar it goes on (after fs.promises.stat) to saveConfig's writeFile.
updateChapterPattern(origin, pattern) ==
    IF sidecar = Absent
    THEN [at |-> "write", sid |-> 0, origin |-> origin, progress |-> 0,
          totalLines |-> 0, pattern |-> pattern,
          config |-> WithPattern(Null, pattern)]
    ELSE [at |-> "read", sid |-> 0, origin |-> origin, progress |-> 0,
          totalLines |-> 0, pattern |-> pattern, config |-> Null]

\* TxtReaderProvider.saveProgressNow
saveProgressNow(s, origin) ==
    StartUpdate(s, origin, currentLine[s], Len(lines[s]))

Remove(seq, i) == SubSeq(seq, 1, i - 1) \o SubSeq(seq, i + 1, Len(seq))

\* ------------------------------------------------------------------ show()
\* Mutant of scanChapters: the global default wins over the document's pattern.
scanChapters_DefaultFirst(ls, config) ==
    LET own == IF config = Null THEN NoPattern ELSE config.chapterPattern
        patternStr == IF defaultChapterPattern # EmptyPattern
                      THEN defaultChapterPattern ELSE own
    IN IF patternStr # NoPattern /\ Compiles(patternStr)
       THEN ScanFrom(ls, patternStr, 1) ELSE <<>>

\* scanChapters
scanChapters(ls, config) ==
    LET own == IF config = Null THEN NoPattern ELSE config.chapterPattern
        patternStr == IF own \in {NoPattern, EmptyPattern}
                      THEN defaultChapterPattern ELSE own
    IN IF Compiles(patternStr) THEN ScanFrom(ls, patternStr, 1) ELSE <<>>

\* aReader.openBook: a new provider replaces readerProvider and show() starts
\* reading the file.  Documents are opened one at a time here: the command is
\* not issued while an earlier panel is loading or open, nor before the sidecar
\* I/O of the earlier panel has completed.  The providers it replaces are then
\* disposed and unreachable, and their fields are dropped.
OpenBook(s) ==
    /\ pc[s] = "new"
    /\ io = <<>>
    /\ \A r \in Sessions \ {s} : pc[r] = (IF r < s THEN "disposed" ELSE "new")
    /\ readerProvider' = s
    /\ pc' = [pc EXCEPT ![s] = "loadFile"]
    /\ lines' = [r \in Sessions |-> <<>>]
    /\ currentLine' = [r \in Sessions |-> 0]
    /\ chapters' = [r \in Sessions |-> <<>>]
    /\ bookConfig' = [r \in Sessions |-> Null]
    /\ resumeDue' = [r \in Sessions |->
          IF r = s
          THEN UNION { IF snap.flushed THEN {snap.line} ELSE {}
                       : snap \in UNION { closeSnap[q] : q \in {s - 1} \cap Sessions } }
          ELSE {}]
    /\ lastReport' = [r \in Sessions |-> {}]
    /\ navSince' = [r \in Sessions |-> {}]
    /\ burstCalls' = [r \in Sessions |-> 0]
    /\ burstWrites' = [r \in Sessions |-> 0]
    /\ closeSnap' = [r \in Sessions |-> {}]
    /\ lastOp' = Op("openBook", s, 0)
    /\ UNCHANGED <<saveProgressTimer, sidecar, defaultChapterPattern, fileUri, configPath, now, dirEntries, aReaderActive,
                   io, nEvents>>

\* The rest of show() once this.bookConfig is known: the panel is created and
\* the aReaderActive context is set.
ShowRest(s, ls, config) ==
    /\ bookConfig' = [bookConfig EXCEPT ![s] = config]
    /\ currentLine' = [currentLine EXCEPT ![s] =
                          IF config # Null THEN config.progress ELSE @]
    /\ chapters' = [chapters EXCEPT ![s] = scanChapters(ls, config)]
    /\ pc' = [pc EXCEPT ![s] = "shown"]
    /\ lastOp' = Op("shown", s, 0)
    /\ aReaderActive' = TRUE

\* loadFile's read completes (or throws); loadConfig starts.
LoadFileDone(s) ==
    /\ pc[s] = "loadFile"
    /\ \E ls \in {<<>>} \cup { Split(decodeBuffer(f, AllLabels)) : f \in Files } :
          /\ lines' = [lines EXCEPT ![s] = ls]
          /\ IF sidecar = Absent
             THEN ShowRest(s, ls, Null)
             ELSE /\ pc' = [pc EXCEPT ![s] = "loadConfig"]
                  /\ lastOp' = Op("loadFile", s, 0)
                  /\ UNCHANGED <<bookConfig, currentLine, chapters, aReaderActive>>
    /\ UNCHANGED <<readerProvider, defaultChapterPattern, fileUri, configPath, now, dirEntries, saveProgressTimer, sidecar, io>>
    /\ UNCHANGED historyVars

\* Mutant of LoadConfigDone: a sidecar that does not parse is deleted.
LoadConfigDone_Repairs(s) ==
    /\ pc[s] = "loadConfig"
    /\ ShowRest(s, lines[s], Parse(sidecar))
    /\ sidecar' = IF sidecar = Corrupt THEN Absent ELSE sidecar
    /\ UNCHANGED <<readerProvider, defaultChapterPattern, fileUri, configPath, now, dirEntries, lines, saveProgressTimer, io>>
    /\ UNCHANGED historyVars

\* loadConfig's read of the sidecar completes.
LoadConfigDone(s) ==
    /\ pc[s] = "loadConfig"
    /\ ShowRest(s, lines[s], Parse(sidecar))
    /\ UNCHANGED <<readerProvider, defaultChapterPattern, fileUri, configPath, now, dirEntries, lines, saveProgressTimer, sidecar, io>>
    /\ UNCHANGED historyVars

\* ---------------------------------------------------------------- navigation
\* Who can reach the session's scroll methods: the commands act on
\* readerProvider, the webview's messages on the session of its panel.
Reachable(s) == s = readerProvider \/ pc[s] = "shown"

\* What a navigation call leaves alone, and the history it makes; assigned
\* tells whether the call assigned this.currentLine.
Navigated(s, name, arg, assigned) ==
    /\ nEvents < MaxEvents
    /\ nEvents' = nEvents + 1
    /\ navSince' = [navSince EXCEPT ![s] =
                       IF assigned THEN @ \cup {currentLine'[s]} ELSE @]
    /\ lastOp' = Op(name, s, arg)
    /\ UNCHANGED <<readerProvider, defaultChapterPattern, fileUri, configPath, now, dirEntries, aReaderActive, pc, lines, chapters, bookConfig,
                   saveProgressTimer, sidecar, io, lastReport, burstCalls,
                   burstWrites, closeSnap, resumeDue>>

scrollUp(s, step) ==
    /\ Reachable(s)
    /\ currentLine' = [currentLine EXCEPT ![s] = Max(0, @ - step)]
    /\ Navigated(s, "scrollUp", currentLine[s], TRUE)

\* Mutant of scrollDown: clamps to lines.length instead of lines.length - 1.
scrollDown_OffByOne(s, step) ==
    /\ Reachable(s)
    /\ currentLine' = [currentLine EXCEPT ![s] = Min(Len(lines[s]), @ + step)]
    /\ Navigated(s, "scrollDown", currentLine[s], TRUE)

scrollDown(s, step) ==
    /\ Reachable(s)
    /\ currentLine' = [currentLine EXCEPT ![s] = Min(Len(lines[s]) - 1, @ + step)]
    /\ Navigated(s, "scrollDown", currentLine[s], TRUE)

\* Mutant of jumpToLine: accepts line = lines.length.
jumpToLine_Inclusive(s, line) ==
    /\ pc[s] = "shown"
    /\ currentLine' = [currentLine EXCEPT ![s] =
                          IF line >= 0 /\ line <= Len(lines[s]) THEN line ELSE @]
    /\ Navigated(s, "jumpToLine", line, line >= 0 /\ line <= Len(lines[s]))

jumpToLine(s, line) ==
    /\ pc[s] = "shown"
    /\ currentLine' = [currentLine EXCEPT ![s] =
                          IF line >= 0 /\ line < Len(lines[s]) THEN line ELSE @]
    /\ Navigated(s, "jumpToLine", line, line >= 0 /\ line < Len(lines[s]))

\* --------------------------------------------------------------------- search
\* String.prototype.startsWith / includes on token sequences.
RECURSIVE startsWith(_, _)
startsWith(line, term) ==
    IF term = <<>> THEN TRUE
    ELSE IF line = <<>> THEN FALSE
    ELSE line[1] = term[1] /\ startsWith(Tail(line), Tail(term))

RECURSIVE includes(_, _)
includes(line, term) ==
    IF startsWith(line, term) THEN TRUE
    ELSE IF line = <<>> THEN FALSE
    ELSE includes(Tail(line), term)

\* Mutant of SearchFrom: the result carries the raw line.
RECURSIVE SearchFrom_Raw(_, _, _)
SearchFrom_Raw(ls, searchTerm, i) ==
    IF i > Len(ls) THEN <<>>
    ELSE (IF includes(ls[i], searchTerm)
          THEN <<[line |-> i - 1, content |-> ls[i]]>> ELSE <<>>)
         \o SearchFrom_Raw(ls, searchTerm, i + 1)

\* The loop of search: results for the lines from index i - 1 on.
RECURSIVE SearchFrom(_, _, _)
SearchFrom(ls, searchTerm, i) ==
    IF i > Len(ls) THEN <<>>
    ELSE (IF includes(ls[i], searchTerm)
          THEN <<[line |-> i - 1, content |-> trim(ls[i])]>> ELSE <<>>)
         \o SearchFrom(ls, searchTerm, i + 1)

\* TxtReaderProvider.search: the searchResults message and the count shown.
search(s, searchTerm) ==
    /\ Reachable(s)
    /\ nEvents < MaxEvents
    /\ nEvents' = nEvents + 1
    /\ lastOp' = Op("search", s,
                    [searchTerm |-> searchTerm,
                     results |-> SearchFrom(lines[s], searchTerm, 1),
                     count |-> Len(SearchFrom(lines[s], searchTerm, 1))])
    /\ UNCHANGED <<readerProvider, defaultChapterPattern, fileUri, configPath, now, dirEntries, aReaderActive, sidecar, io, lastReport,
                   navSince, burstCalls, burstWrites, closeSnap, resumeDue>>
    /\ UNCHANGED sessionVars

\* ------------------------------------------------------- progress persistence
\* Mutant of updateProgress: the earlier timeout is not cleared.
updateProgress_NoClear(s, line) ==
    /\ pc[s] = "shown"
    /\ nEvents < MaxEvents
    /\ currentLine' = [currentLine EXCEPT ![s] = line]
    /\ saveProgressTimer' = [saveProgressTimer EXCEPT ![s] = @ + 1]
    /\ nEvents' = nEvents + 1
    /\ lastReport' = [lastReport EXCEPT ![s] = {line}]
    /\ navSince' = [navSince EXCEPT ![s] = {}]
    /\ burstCalls' = [burstCalls EXCEPT ![s] = IF saveProgressTimer[s] > 0 THEN @ + 1 ELSE 1]
    /\ burstWrites' = [burstWrites EXCEPT ![s] = 0]
    /\ lastOp' = Op("updateProgress", s, line)
    /\ UNCHANGED <<readerProvider, defaultChapterPattern, fileUri, configPath, now, dirEntries, aReaderActive, pc, lines, chapters, bookConfig, sidecar, io,
                   closeSnap, resumeDue>>

\* The webview's updateProgress message: TxtReaderProvider.updateProgress.
updateProgress(s, line) ==
    /\ pc[s] = "shown"
    /\ nEvents < MaxEvents
    /\ currentLine' = [currentLine EXCEPT ![s] = line]
    /\ saveProgressTimer' = [saveProgressTimer EXCEPT ![s] = 1]
    /\ nEvents' = nEvents + 1
    /\ lastReport' = [lastReport EXCEPT ![s] = {line}]
    /\ navSince' = [navSince EXCEPT ![s] = {}]
    /\ burstCalls' = [burstCalls EXCEPT ![s] = IF saveProgressTimer[s] > 0 THEN @ + 1 ELSE 1]
    /\ burstWrites' = [burstWrites EXCEPT ![s] = 0]
    /\ lastOp' = Op("updateProgress", s, line)
    /\ UNCHANGED <<readerProvider, defaultChapterPattern, fileUri, configPath, now, dirEntries, aReaderActive, pc, lines, chapters, bookConfig, sidecar, io,
                   closeSnap, resumeDue>>

\* Mutant of TimerFire: the timeout fires without saving.
TimerFire_NoSave(s) ==
    /\ saveProgressTimer[s] > 0
    /\ saveProgressTimer' = [saveProgressTimer EXCEPT ![s] = @ - 1]
    /\ burstWrites' = [burstWrites EXCEPT ![s] = @ + 1]
    /\ lastOp' = Op("timerFire", s, currentLine[s])
    /\ UNCHANGED <<readerProvider, defaultChapterPattern, fileUri, configPath, now, dirEntries, aReaderActive, pc, lines, currentLine, chapters, bookConfig,
                   sidecar, io, lastReport, navSince, burstCalls, closeSnap,
                   resumeDue, nEvents>>

\* Mutant of TimerFire: the write carries the argument of the updateProgress
\* call that scheduled the timeout.
TimerFire_SavesArgument(s) ==
    /\ saveProgressTimer[s] > 0
    /\ saveProgressTimer' = [saveProgressTimer EXCEPT ![s] = @ - 1]
    /\ io' = Append(io, StartUpdate(s, "timer",
                                    IF lastReport[s] = {} THEN currentLine[s]
                                    ELSE CHOOSE line \in lastReport[s] : TRUE,
                                    Len(lines[s])))
    /\ burstWrites' = [burstWrites EXCEPT ![s] = @ + 1]
    /\ lastOp' = Op("timerFire", s, io'[Len(io')].progress)
    /\ UNCHANGED <<readerProvider, defaultChapterPattern, fileUri, configPath, now, dirEntries, aReaderActive, pc, lines, currentLine, chapters, bookConfig,
                   sidecar, lastReport, navSince, burstCalls, closeSnap,
                   resumeDue, nEvents>>

\* The 2 s timeout fires and calls saveProgressNow.
TimerFire(s) ==
    /\ saveProgressTimer[s] > 0
    /\ saveProgressTimer' = [saveProgressTimer EXCEPT ![s] = @ - 1]
    /\ io' = Append(io, saveProgressNow(s, "timer"))
    /\ burstWrites' = [burstWrites EXCEPT ![s] = @ + 1]
    /\ lastOp' = Op("timerFire", s, io'[Len(io')].progress)
    /\ UNCHANGED <<readerProvider, defaultChapterPattern, fileUri, configPath, now, dirEntries, aReaderActive, pc, lines, currentLine, chapters, bookConfig,
                   sidecar, lastReport, navSince, burstCalls, closeSnap,
                   resumeDue, nEvents>>

\* Mutant of Dispose: the pending timeout is not cleared.
Dispose_KeepsTimer(s) ==
    /\ pc[s] = "shown"
    /\ io' = Append(io, saveProgressNow(s, "close"))
    /\ pc' = [pc EXCEPT ![s] = "disposed"]
    /\ aReaderActive' = FALSE
    /\ closeSnap' = [closeSnap EXCEPT ![s] =
          {[line |-> currentLine[s], total |-> Len(lines[s]),
            pending |-> saveProgressTimer[s] > 0, nav |-> navSince[s] # {},
            flushed |-> FALSE]}]
    /\ lastOp' = Op("dispose", s, io'[Len(io')].progress)
    /\ UNCHANGED <<readerProvider, defaultChapterPattern, fileUri, configPath, now, dirEntries, lines, currentLine, chapters, bookConfig,
                   saveProgressTimer, sidecar, lastReport, navSince, burstCalls,
                   burstWrites, resumeDue, nEvents>>

\* panel.onDidDispose
Dispose(s) ==
    /\ pc[s] = "shown"
    /\ io' = Append(io, saveProgressNow(s, "close"))
    /\ saveProgressTimer' = [saveProgressTimer EXCEPT ![s] = 0]
    /\ pc' = [pc EXCEPT ![s] = "disposed"]
    /\ aReaderActive' = FALSE
    /\ closeSnap' = [closeSnap EXCEPT ![s] =
          {[line |-> currentLine[s], total |-> Len(lines[s]),
            pending |-> saveProgressTimer[s] > 0, nav |-> navSince[s] # {},
            flushed |-> FALSE]}]
    /\ lastOp' = Op("dispose", s, io'[Len(io')].progress)
    /\ UNCHANGED <<readerProvider, defaultChapterPattern, fileUri, configPath, now, dirEntries, lines, currentLine, chapters, bookConfig,
                   sidecar, lastReport, navSince, burstCalls, burstWrites, resumeDue,
                   nEvents>>

\* -------------------------------------------------------- chapter patterns
PatternOrigins == {"reader", "shelf"}

\* What starting a pattern change leaves alone, and the history it makes.
PatternChangeStarted(origin, pattern) ==
    /\ nEvents < MaxEvents
    /\ nEvents' = nEvents + 1
    /\ io' = Append(io, updateChapterPattern(origin, pattern))
    /\ lastOp' = Op("configurePattern", 0, pattern)
    /\ UNCHANGED <<readerProvider, defaultChapterPattern, fileUri, configPath, now, dirEntries, aReaderActive, sidecar, lastReport, navSince,
                   burstCalls, burstWrites, closeSnap, resumeDue>>
    /\ UNCHANGED sessionVars

\* The aReader.configureBookPattern command, from the input box's answer on.
configureBookPatternCommand(pattern) ==
    /\ readerProvider # 0
    /\ PatternChangeStarted("reader", pattern)

\* BookshelfProvider.configureBookPattern, from the input box's answer on.
configureBookPattern(pattern) ==
    /\ PatternChangeStarted("shelf", pattern)

\* Mutant of reloadChapters: a scan that finds nothing keeps the earlier index.
reloadChapters_KeepsOld(origin) ==
    IF /\ origin = "reader"
       /\ readerProvider # 0
       /\ scanChapters(lines[readerProvider], bookConfig[readerProvider]) # <<>>
    THEN [chapters EXCEPT ![readerProvider] =
             scanChapters(lines[readerProvider], bookConfig[readerProvider])]
    ELSE chapters

\* reloadChapters on readerProvider, which the command calls once
\* updateChapterPattern has returned; the bookshelf only refreshes its list.
reloadChapters(origin) ==
    IF origin = "reader" /\ readerProvider # 0
    THEN [chapters EXCEPT ![readerProvider] =
             scanChapters(lines[readerProvider], bookConfig[readerProvider])]
    ELSE chapters

\* SettingsProvider.saveSettings: the global default pattern changes.
saveSettings(pattern) ==
    /\ nEvents < MaxEvents
    /\ pattern # defaultChapterPattern
    /\ nEvents' = nEvents + 1
    /\ defaultChapterPattern' = pattern
    /\ lastOp' = Op("saveSettings", 0, pattern)
    /\ UNCHANGED <<readerProvider, fileUri, configPath, now, dirEntries, aReaderActive, sidecar, io, lastReport,
                   navSince, burstCalls, burstWrites, closeSnap, resumeDue>>
    /\ UNCHANGED sessionVars

\* A sidecar update's loadConfig read completes; saveConfig's write starts.
IoReadDone(i) ==
    /\ i \in 1..Len(io)
    /\ io[i].at = "read"
    /\ io' = [io EXCEPT ![i] =
                 [@ EXCEPT !.at = "write",
                           !.config = IF io[i].origin \in PatternOrigins
                                      THEN WithPattern(Parse(sidecar), io[i].pattern)
                                      ELSE WithProgress(Parse(sidecar), io[i].progress,
                                                        io[i].totalLines)]]
    /\ lastOp' = Op("ioRead", 0, 0)
    /\ UNCHANGED <<readerProvider, defaultChapterPattern, fileUri, configPath, now, dirEntries, aReaderActive, sidecar>>
    /\ UNCHANGED sessionVars
    /\ UNCHANGED historyVars

\* saveConfig's writeFile completes.
IoWriteDone(i) ==
    /\ i \in 1..Len(io)
    /\ io[i].at = "write"
    /\ sidecar' = io[i].config
    /\ io' = Remove(io, i)
    /\ closeSnap' = IF io[i].origin = "close"
                    THEN [closeSnap EXCEPT ![io[i].sid] =
                             { [snap EXCEPT !.flushed = TRUE] : snap \in @ }]
                    ELSE closeSnap
    /\ chapters' = reloadChapters(io[i].origin)
    /\ lastOp' = IF io[i].origin = "close"
                  THEN Op("closeWritten", io[i].sid, io[i].progress)
                  ELSE IF io[i].origin = "timer"
                  THEN Op("timerWritten", io[i].sid, io[i].progress)
                  ELSE Op("patternWritten",
                          IF io[i].origin = "reader" THEN readerProvider ELSE 0,
                          io[i].pattern)
    /\ UNCHANGED <<readerProvider, defaultChapterPattern, fileUri, configPath, now, dirEntries, aReaderActive, lastReport, navSince,
                   burstCalls, burstWrites, resumeDue, nEvents>>
    /\ UNCHANGED <<pc, lines, currentLine, bookConfig, saveProgressTimer>>

\* saveConfig's writeFile throws: reported, not retried.
IoWriteFail(i) ==
    /\ i \in 1..Len(io)
    /\ io[i].at = "write"
    /\ io' = Remove(io, i)
    /\ chapters' = reloadChapters(io[i].origin)
    /\ lastOp' = Op("writeFailed", 0, 0)
    /\ UNCHANGED <<readerProvider, defaultChapterPattern, fileUri, configPath, now, dirEntries, aReaderActive, sidecar, lastReport, navSince,
                   burstCalls, burstWrites, closeSnap, resumeDue, nEvents>>
    /\ UNCHANGED <<pc, lines, currentLine, bookConfig, saveProgressTimer>>

\* ------------------------------------------------------------ specification
Open == \E s \in Sessions : OpenBook(s) \/ LoadFileDone(s) \/ LoadConfigDone(s)
ScrollUp == \E s \in Sessions, step \in ScrollSteps : scrollUp(s, step)
ScrollDown == \E s \in Sessions, step \in ScrollSteps : scrollDown(s, step)
JumpToLine == \E s \in Sessions, line \in JumpTargets : jumpToLine(s, line)
ReportProgress == \E s \in Sessions : \E line \in 0..(Len(lines[s]) - 1) : updateProgress(s, line)
Timer == \E s \in Sessions : TimerFire(s)
Close == \E s \in Sessions : Dispose(s)
ConfigurePattern ==
    \E pattern \in PatternInputs :
        configureBookPatternCommand(pattern) \/ configureBookPattern(pattern)
SaveSettings == \E pattern \in SettingsPatterns : saveSettings(pattern)
IoRead == \E i \in 1..Len(io) : IoReadDone(i)
IoWrite == \E i \in 1..Len(io) : IoWriteDone(i)
IoFail == \E i \in 1..Len(io) : IoWriteFail(i)

Next ==
    \/ Open
    \/ ScrollUp
    \/ ScrollDown
    \/ JumpToLine
    \/ ReportProgress
    \/ Timer
    \/ Close
    \/ IoRead
    \/ IoWrite
    \/ IoFail

Spec == Init /\ [][Next]_vars

\* Every sidecar write succeeds, a scheduled timeout that is not cleared fires,
\* and file I/O that was started completes.
NextNoFail ==
    \/ Open
    \/ ScrollUp
    \/ ScrollDown
    \/ JumpToLine
    \/ ReportProgress
    \/ Timer
    \/ Close
    \/ IoRead
    \/ IoWrite

FairSpec ==
    /\ Init
    /\ [][NextNoFail]_vars
    /\ WF_vars(Timer)
    /\ WF_vars(IoRead)
    /\ WF_vars(IoWrite)

\* Sessions whose chapter pattern is changed while they are read: the reader
\* command, the bookshelf and the settings page act between opening, navigation
\* and closing; the webview sends no updateProgress message.
ChapterNext ==
    \/ Open
    \/ ScrollUp
    \/ ScrollDown
    \/ JumpToLine
    \/ ConfigurePattern
    \/ SaveSettings
    \/ Close
    \/ IoRead
    \/ IoWrite
    \/ IoFail

ChapterSpec == Init /\ [][ChapterNext]_vars

\* ------------------------------------------------- one open session, any text
\* The lines a decoded file can hold, the configs show() can have loaded and the
\* terms typed into the search box.
ViewLineTexts == {decodeBuffer(SampleLines[i], AllLabels) : i \in 1..Len(SampleLines)}
ViewLines == UNION {[1..n -> ViewLineTexts] : n \in 0..MaxLines}
ViewConfigs == {Null} \cup {BookConfig(0, MaxLines, cp) : cp \in {NoPattern} \cup Patterns}
SearchTerms == {<<"z">>, <<"a">>, <<"A">>, <<"#">>, <<"\r">>, <<"#", "a">>, <<"a", "#">>}

\* Session 1 is open on some text under some config and default pattern; its
\* chapter index is empty (the default pattern did not compile when it opened
\* and has been changed since).
ViewInit ==
    /\ readerProvider = 1
    /\ pc = [s \in Sessions |-> IF s = 1 THEN "shown" ELSE "new"]
    /\ \E ls \in ViewLines : lines = [s \in Sessions |-> IF s = 1 THEN ls ELSE <<>>]
    /\ currentLine = [s \in Sessions |-> 0]
    /\ chapters = [s \in Sessions |-> <<>>]
    /\ \E config \in ViewConfigs :
          bookConfig = [s \in Sessions |-> IF s = 1 THEN config ELSE Null]
    /\ saveProgressTimer \in [Sessions -> {0}] \cup {[s \in Sessions |-> IF s = 1 THEN 1 ELSE 0]}
    /\ sidecar = Absent
    /\ defaultChapterPattern \in Patterns
    /\ fileUri = [s \in Sessions |-> Doc]
    /\ configPath = [s \in Sessions |-> getConfigPath(Doc)]
    /\ now = FirstDay
    /\ dirEntries = <<>>
    /\ aReaderActive = TRUE
    /\ io = <<>>
    /\ lastOp = Op("init", 0, 0)
    /\ lastReport = [s \in Sessions |-> {}]
    /\ navSince = [s \in Sessions |-> {}]
    /\ burstCalls = [s \in Sessions |-> 0]
    /\ burstWrites = [s \in Sessions |-> 0]
    /\ closeSnap = [s \in Sessions |-> {}]
    /\ resumeDue = [s \in Sessions |-> {}]
    /\ nEvents = 0

\* readerProvider.reloadChapters(), as the configureBookPattern command calls it.
Rescan ==
    /\ readerProvider # 0
    /\ nEvents < MaxEvents
    /\ nEvents' = nEvents + 1
    /\ chapters' = reloadChapters("reader")
    /\ lastOp' = Op("reloadChapters", readerProvider, 0)
    /\ UNCHANGED <<readerProvider, defaultChapterPattern, fileUri, configPath, now, dirEntries, aReaderActive, sidecar, io, lastReport,
                   navSince, burstCalls, burstWrites, closeSnap, resumeDue>>
    /\ UNCHANGED <<pc, lines, currentLine, bookConfig, saveProgressTimer>>

Search == \E s \in Sessions, searchTerm \in SearchTerms : search(s, searchTerm)

ViewNext ==
    \/ Rescan
    \/ Search

ViewSpec == ViewInit /\ [][ViewNext]_vars

\* ------------------------------------------------- sidecar paths of documents
\* The documents opened: in two directories, with and without the .txt
\* extension, with another extension and with two.
SourceDirs == {"d", "e"}
SourceNames == {<<"b", "txt">>, <<"b", "md">>, <<"b">>, <<"b", "md", "txt">>, <<"c", "txt">>}
SourcePaths == {Path(dir, name) : dir \in SourceDirs, name \in SourceNames}

\* Every session is a provider constructed on some document; none has called
\* BookConfigManager yet.
PathInit ==
    /\ readerProvider = 0
    /\ pc = [s \in Sessions |-> "new"]
    /\ lines = [s \in Sessions |-> <<>>]
    /\ currentLine = [s \in Sessions |-> 0]
    /\ chapters = [s \in Sessions |-> <<>>]
    /\ bookConfig = [s \in Sessions |-> Null]
    /\ saveProgressTimer = [s \in Sessions |-> 0]
    /\ sidecar = Absent
    /\ defaultChapterPattern = DefaultPattern
    /\ fileUri \in [Sessions -> SourcePaths]
    /\ configPath = [s \in Sessions |-> NoPath]
    /\ now = FirstDay
    /\ dirEntries = <<>>
    /\ aReaderActive = FALSE
    /\ io = <<>>
    /\ lastOp = Op("init", 0, 0)
    /\ lastReport = [s \in Sessions |-> {}]
    /\ navSince = [s \in Sessions |-> {}]
    /\ burstCalls = [s \in Sessions |-> 0]
    /\ burstWrites = [s \in Sessions |-> 0]
    /\ closeSnap = [s \in Sessions |-> {}]
    /\ resumeDue = [s \in Sessions |-> {}]
    /\ nEvents = 0

\* The session's BookConfigManager.loadConfig(this.fileUri.fsPath) derives the
\* sidecar path.
DerivePath(s) ==
    /\ configPath[s] = NoPath
    /\ configPath' = [configPath EXCEPT ![s] = getConfigPath(fileUri[s])]
    /\ lastOp' = Op("getConfigPath", s, 0)
    /\ UNCHANGED <<readerProvider, defaultChapterPattern, fileUri, now, dirEntries, aReaderActive,
                   sidecar, io>>
    /\ UNCHANGED sessionVars
    /\ UNCHANGED historyVars

PathNext == \E s \in Sessions : DerivePath(s)

PathSpec == PathInit /\ [][PathNext]_vars

\* ------------------------------------------------ saving and loading a config
\* A BookConfig with every field of the interface; an optional field is <<>>
\* when undefined and <<v>> when it holds v.
ConfigKeys == <<"filePath", "fileName", "progress", "totalLines", "lastReadTime",
                "chapterPattern", "bookmarks">>
OptionalKeys == {"chapterPattern", "bookmarks"}
FullConfigs ==
    [filePath : {Doc}, fileName : {Doc.name},
     progress : {0 - 1, MaxLines}, totalLines : {MaxLines},
     lastReadTime : {"2026-01-01T00:00:00.000Z", "2026-01-02T00:00:00.000Z"},
     chapterPattern : {<<>>, <<EmptyPattern>>, <<"a">>},
     bookmarks : {<<>>, <<<<0, MaxLines>>>>}]

\* JSON.stringify(config, null, 2): the members of the object in key order; a
\* member whose value is undefined is left out.
RECURSIVE StringifyFrom(_, _)
StringifyFrom(config, i) ==
    IF i > Len(ConfigKeys) THEN <<>>
    ELSE LET key == ConfigKeys[i]
         IN (IF key \in OptionalKeys
             THEN (IF config[key] = <<>> THEN <<>>
                   ELSE <<[key |-> key, value |-> config[key][1]]>>)
             ELSE <<[key |-> key, value |-> config[key]]>>)
            \o StringifyFrom(config, i + 1)
stringify(config) == StringifyFrom(config, 1)

\* JSON.parse(content): a key without a member reads as undefined.
Member(content, key) ==
    LET at == {i \in 1..Len(content) : content[i].key = key}
    IN IF key \in OptionalKeys
       THEN (IF at = {} THEN <<>> ELSE <<content[CHOOSE i \in at : TRUE].value>>)
       ELSE content[CHOOSE i \in at : TRUE].value
parse(content) ==
    [filePath |-> Member(content, "filePath"),
     fileName |-> Member(content, "fileName"),
     progress |-> Member(content, "progress"),
     totalLines |-> Member(content, "totalLines"),
     lastReadTime |-> Member(content, "lastReadTime"),
     chapterPattern |-> Member(content, "chapterPattern"),
     bookmarks |-> Member(content, "bookmarks")]

JsonFile(content) == [kind |-> "json", content |-> content]

\* fs.promises.writeFile(configPath, content, 'utf-8'): what the file can hold
\* once the call has settled.  A call that throws was refused when it opened
\* the file, or failed after the open had emptied it.
writeFile(file, content, written) ==
    IF written THEN {JsonFile(content)} ELSE {file, Truncated}

StoreInit ==
    /\ readerProvider = 0
    /\ pc = [s \in Sessions |-> "new"]
    /\ lines = [s \in Sessions |-> <<>>]
    /\ currentLine = [s \in Sessions |-> 0]
    /\ chapters = [s \in Sessions |-> <<>>]
    /\ bookConfig = [s \in Sessions |-> Null]
    /\ saveProgressTimer = [s \in Sessions |-> 0]
    /\ sidecar \in {Absent, Corrupt, Unreadable}
    /\ defaultChapterPattern = DefaultPattern
    /\ fileUri = [s \in Sessions |-> Doc]
    /\ configPath = [s \in Sessions |-> getConfigPath(Doc)]
    /\ now = FirstDay
    /\ dirEntries = <<>>
    /\ aReaderActive = FALSE
    /\ io = <<>>
    /\ lastOp = Op("init", 0, 0)
    /\ lastReport = [s \in Sessions |-> {}]
    /\ navSince = [s \in Sessions |-> {}]
    /\ burstCalls = [s \in Sessions |-> 0]
    /\ burstWrites = [s \in Sessions |-> 0]
    /\ closeSnap = [s \in Sessions |-> {}]
    /\ resumeDue = [s \in Sessions |-> {}]
    /\ nEvents = 0

\* What saveConfig and loadConfig leave alone; calls are counted.
StoreFrame ==
    /\ nEvents < MaxEvents
    /\ nEvents' = nEvents + 1
    /\ UNCHANGED <<readerProvider, defaultChapterPattern, fileUri, configPath, now, dirEntries, aReaderActive, io,
                   pc, lines, currentLine, chapters, saveProgressTimer>>
    /\ UNCHANGED <<lastReport, navSince, burstCalls, burstWrites, closeSnap, resumeDue>>

\* Mutant of saveConfig: the config is stamped with the time of the save.
saveConfig_StampsNow(config, written) ==
    /\ sidecar' \in writeFile(sidecar,
                             stringify([config EXCEPT
                                           !.lastReadTime = "2026-01-03T00:00:00.000Z"]),
                             written)
    /\ lastOp' = Op("saveConfig", 0, [config |-> config, result |-> written])
    /\ UNCHANGED bookConfig
    /\ StoreFrame

\* BookConfigManager.saveConfig: writes the text and returns true, or returns
\* false when writeFile throws.
saveConfig(config, written) ==
    /\ sidecar' \in writeFile(sidecar, stringify(config), written)
    /\ lastOp' = Op("saveConfig", 0, [config |-> config, result |-> written])
    /\ UNCHANGED bookConfig
    /\ StoreFrame

\* Mutant of loadConfig: a sidecar that does not parse is deleted.
loadConfig_Repairs(s) ==
    /\ bookConfig' = [bookConfig EXCEPT ![s] =
                          IF sidecar.kind = "json" THEN parse(sidecar.content) ELSE Null]
    /\ lastOp' = Op("loadConfig", s, 0)
    /\ sidecar' = IF sidecar.kind = "json" THEN sidecar ELSE Absent
    /\ StoreFrame

\* BookConfigManager.loadConfig, its result kept as the session's bookConfig:
\* the parsed text, or null when the sidecar is missing (existsSync), cannot be
\* read (readFile throws) or does not parse (JSON.parse throws).
loadConfig(s) ==
    /\ bookConfig' = [bookConfig EXCEPT ![s] =
                          IF sidecar.kind = "json" THEN parse(sidecar.content) ELSE Null]
    /\ lastOp' = Op("loadConfig", s, 0)
    /\ UNCHANGED sidecar
    /\ StoreFrame

SaveConfig == \E config \in FullConfigs, written \in BOOLEAN : saveConfig(config, written)
LoadConfig == \E s \in Sessions : loadConfig(s)

StoreNext ==
    \/ SaveConfig
    \/ LoadConfig

StoreSpec == StoreInit /\ [][StoreNext]_vars

\* ------------------------------------------- updates of a document's sidecar
\* BookConfigManager.updateProgress and updateChapterPattern on Doc, each a
\* read-modify-write of the sidecar whose file I/O completes in steps of its
\* own; the clock moves while they wait.
\* What an earlier run left in the sidecar, and what the callers pass:
\* saveProgressNow passes currentLine and lines.length.
StoredBefore ==
    [filePath : {Doc}, fileName : {basename(Doc, "")},
     progress : {1}, totalLines : {MaxLines + 1},
     lastReadTime : {toISOString(DayBefore)},
     chapterPattern : {<<>>, <<"#">>},
     bookmarks : {<<<<0>>>>}]
ProgressArgs == {<<0, 1>>, <<MaxLines - 1, MaxLines>>}

\* loadConfig's result on a file.
Loaded(file) == IF file.kind = "json" THEN parse(file.content) ELSE Null

\* The config the two updates synthesize when loadConfig returned null.
NewConfig(txtFilePath, totalLines, time) ==
    [filePath |-> txtFilePath, fileName |-> basename(txtFilePath, ""),
     progress |-> 0, totalLines |-> totalLines,
     lastReadTime |-> toISOString(time),
     chapterPattern |-> <<>>, bookmarks |-> <<>>]

\* Mutant of ProgressConfig: a new config is made whatever was loaded.
ProgressConfig_StartsAnew(config, txtFilePath, progress, totalLines, time) ==
    [NewConfig(txtFilePath, totalLines, time) EXCEPT !.progress = progress]

\* updateProgress after loadConfig returned config, at time: the config handed
\* to saveConfig.
ProgressConfig(config, txtFilePath, progress, totalLines, time) ==
    [(IF config = Null THEN NewConfig(txtFilePath, totalLines, time) ELSE config)
        EXCEPT !.progress = progress, !.totalLines = totalLines,
               !.lastReadTime = toISOString(time)]

\* Mutant of PatternConfig: the reading position is reset.
PatternConfig_ResetsProgress(config, txtFilePath, pattern, time) ==
    [(IF config = Null THEN NewConfig(txtFilePath, 0, time) ELSE config)
        EXCEPT !.chapterPattern = <<pattern>>, !.progress = 0]

\* Mutant of PatternConfig: a synthesized config counts the lines of the file.
PatternConfig_CountsLines(config, txtFilePath, pattern, time) ==
    [(IF config = Null THEN NewConfig(txtFilePath, MaxLines, time) ELSE config)
        EXCEPT !.chapterPattern = <<pattern>>]

\* updateChapterPattern after loadConfig returned config (and, for null, after
\* stat returned at time): the config handed to saveConfig.
PatternConfig(config, txtFilePath, pattern, time) ==
    [(IF config = Null THEN NewConfig(txtFilePath, 0, time) ELSE config)
        EXCEPT !.chapterPattern = <<pattern>>]

\* A call in flight: which call of the run it is, its arguments, where it
\* stands, the file its loadConfig found, the stats of the source file, the
\* config it hands to saveConfig and the time it does so.
Call(name, progress, totalLines, pattern) ==
    [id |-> nEvents + 1,
     call |-> name, at |-> "read", progress |-> progress, totalLines |-> totalLines,
     pattern |-> pattern, loaded |-> Absent, stats |-> [size |-> 0], config |-> Null,
     savedAt |-> 0]

\* The call once its loadConfig has returned for file: updateProgress goes on
\* to saveConfig, updateChapterPattern to stat if it got null and to saveConfig
\* otherwise.
AfterLoad(c, file) ==
    IF c.call = "updateProgress"
    THEN [c EXCEPT !.at = "write", !.loaded = file, !.savedAt = now,
                   !.config = ProgressConfig(Loaded(file), Doc, c.progress,
                                             c.totalLines, now)]
    ELSE IF Loaded(file) = Null
    THEN [c EXCEPT !.at = "stat", !.loaded = file]
    ELSE [c EXCEPT !.at = "write", !.loaded = file, !.savedAt = now,
                   !.config = PatternConfig(Loaded(file), Doc, c.pattern, now)]

ManagerInit ==
    /\ readerProvider = 0
    /\ pc = [s \in Sessions |-> "new"]
    /\ lines = [s \in Sessions |-> <<>>]
    /\ currentLine = [s \in Sessions |-> 0]
    /\ chapters = [s \in Sessions |-> <<>>]
    /\ bookConfig = [s \in Sessions |-> Null]
    /\ saveProgressTimer = [s \in Sessions |-> 0]
    /\ sidecar \in {Absent, Corrupt, Unreadable}
                      \cup {JsonFile(stringify(config)) : config \in StoredBefore}
    /\ defaultChapterPattern = DefaultPattern
    /\ fileUri = [s \in Sessions |-> Doc]
    /\ configPath = [s \in Sessions |-> getConfigPath(Doc)]
    /\ now = FirstDay
    /\ dirEntries = <<>>
    /\ aReaderActive = FALSE
    /\ io = <<>>
    /\ lastOp = Op("init", 0, 0)
    /\ lastReport = [s \in Sessions |-> {}]
    /\ navSince = [s \in Sessions |-> {}]
    /\ burstCalls = [s \in Sessions |-> 0]
    /\ burstWrites = [s \in Sessions |-> 0]
    /\ closeSnap = [s \in Sessions |-> {}]
    /\ resumeDue = [s \in Sessions |-> {}]
    /\ nEvents = 0

\* What the manager's steps leave alone.
ManagerFrame ==
    /\ UNCHANGED <<readerProvider, defaultChapterPattern, fileUri, configPath, dirEntries, aReaderActive>>
    /\ UNCHANGED <<lastReport, navSince, burstCalls, burstWrites, closeSnap, resumeDue>>
    /\ UNCHANGED sessionVars

\* A call up to its first await on file I/O; existsSync is synchronous, so
\* without a sidecar loadConfig returns null at once.  Calls are counted.
BeginCall(c) ==
    /\ nEvents < MaxEvents
    /\ nEvents' = nEvents + 1
    /\ io' = Append(io, IF sidecar = Absent THEN AfterLoad(c, Absent) ELSE c)
    /\ lastOp' = Op(c.call, 0, c)
    /\ UNCHANGED <<sidecar, now>>
    /\ ManagerFrame

\* BookConfigManager.updateProgress is called.
ManagerUpdateProgress(progress, totalLines) ==
    BeginCall(Call("updateProgress", progress, totalLines, NoPattern))

\* BookConfigManager.updateChapterPattern is called.
ManagerUpdateChapterPattern(pattern) ==
    BeginCall(Call("updateChapterPattern", 0, 0, pattern))

\* readFile settles and loadConfig returns.
ManagerReadDone(i) ==
    /\ i \in 1..Len(io)
    /\ io[i].at = "read"
    /\ io' = [io EXCEPT ![i] = AfterLoad(@, sidecar)]
    /\ lastOp' = Op("loaded", 0, io'[i])
    /\ UNCHANGED <<sidecar, now, nEvents>>
    /\ ManagerFrame

\* fs.promises.stat(txtFilePath) returns the stats of the source file.
ManagerStatDone(i, file) ==
    /\ i \in 1..Len(io)
    /\ io[i].at = "stat"
    /\ io' = [io EXCEPT ![i] =
                 [@ EXCEPT !.at = "write", !.stats = [size |-> Len(file)],
                           !.savedAt = now,
                           !.config = PatternConfig(Null, Doc, io[i].pattern, now)]]
    /\ lastOp' = Op("stat", 0, io'[i])
    /\ UNCHANGED <<sidecar, now, nEvents>>
    /\ ManagerFrame

\* fs.promises.stat(txtFilePath) throws (the source file is gone): nothing in
\* updateChapterPattern catches it and the call's promise rejects.
ManagerStatFail(i) ==
    /\ i \in 1..Len(io)
    /\ io[i].at = "stat"
    /\ io' = Remove(io, i)
    /\ lastOp' = Op("rejected", 0, [call |-> io[i], before |-> sidecar])
    /\ UNCHANGED <<sidecar, now, nEvents>>
    /\ ManagerFrame

\* Mutant of ManagerWriteDone: fields the call did not set are taken from the
\* sidecar as it is when the write lands.
ManagerWriteDone_Merges(i) ==
    /\ i \in 1..Len(io)
    /\ io[i].at = "write"
    /\ sidecar' = JsonFile(stringify(
          IF sidecar.kind # "json" THEN io[i].config
          ELSE IF io[i].call = "updateProgress"
          THEN [io[i].config EXCEPT !.chapterPattern = parse(sidecar.content).chapterPattern]
          ELSE [io[i].config EXCEPT !.progress = parse(sidecar.content).progress,
                                    !.totalLines = parse(sidecar.content).totalLines]))
    /\ io' = Remove(io, i)
    /\ lastOp' = Op("saved", 0, [call |-> io[i], before |-> sidecar, result |-> TRUE,
                                 shown |-> FALSE])
    /\ UNCHANGED <<now, nEvents>>
    /\ ManagerFrame

\* saveConfig's writeFile completes: saveConfig returns true.
ManagerWriteDone(i) ==
    /\ i \in 1..Len(io)
    /\ io[i].at = "write"
    /\ sidecar' \in writeFile(sidecar, stringify(io[i].config), TRUE)
    /\ io' = Remove(io, i)
    /\ lastOp' = Op("saved", 0, [call |-> io[i], before |-> sidecar, result |-> TRUE,
                                 shown |-> FALSE])
    /\ UNCHANGED <<now, nEvents>>
    /\ ManagerFrame

\* saveConfig's writeFile throws: the error is logged and shown, saveConfig
\* returns false and the update returns.
ManagerWriteFail(i) ==
    /\ i \in 1..Len(io)
    /\ io[i].at = "write"
    /\ sidecar' \in writeFile(sidecar, stringify(io[i].config), FALSE)
    /\ io' = Remove(io, i)
    /\ lastOp' = Op("saveFailed", 0, [call |-> io[i], before |-> sidecar,
                                      result |-> FALSE, shown |-> TRUE])
    /\ UNCHANGED <<now, nEvents>>
    /\ ManagerFrame

\* A day passes.
Tick ==
    /\ now < LastDay
    /\ now' = now + 1
    /\ lastOp' = Op("tick", 0, 0)
    /\ UNCHANGED <<sidecar, io, nEvents>>
    /\ ManagerFrame

UpdateProgress == \E args \in ProgressArgs : ManagerUpdateProgress(args[1], args[2])
UpdateChapterPattern == \E pattern \in PatternInputs : ManagerUpdateChapterPattern(pattern)
ManagerRead == \E i \in 1..Len(io) : ManagerReadDone(i)
ManagerStat ==
    \E i \in 1..Len(io) : (\E file \in Files : ManagerStatDone(i, file)) \/ ManagerStatFail(i)
ManagerWrite == \E i \in 1..Len(io) : ManagerWriteDone(i)
ManagerFail == \E i \in 1..Len(io) : ManagerWriteFail(i)

ManagerNext ==
    \/ UpdateProgress
    \/ UpdateChapterPattern
    \/ ManagerRead
    \/ ManagerStat
    \/ ManagerWrite
    \/ ManagerFail
    \/ Tick

ManagerSpec == ManagerInit /\ [][ManagerNext]_vars

\* ------------------------------------------------------- the books directory
\* What readdir finds in the aReader.booksDirectory folder: for each entry its
\* name, what stat says of it ("missing": stat throws, as for a dangling link
\* or an entry removed since readdir), its modification time, and the sidecar
\* that getConfigPath derives for it.
MaxEntries == 2
BooksDir == "d"
DirEntry(name, type, mtime, file) ==
    [name |-> name, type |-> type, mtime |-> mtime, sidecar |-> file]
ShelfConfig(name, progress, time) ==
    [NewConfig(Path(BooksDir, name), MaxLines, time) EXCEPT !.progress = progress]
SidecarsOf(name) ==
    {Absent, Corrupt}
        \cup {JsonFile(stringify(ShelfConfig(name, 1, time))) :
                 time \in {DayBefore, FirstDay + 1}}
BookEntries ==
    UNION {{DirEntry(name, "file", mtime, file) :
               mtime \in {DayBefore, FirstDay}, file \in SidecarsOf(name)} :
           name \in {<<"a", "txt">>, <<"e", "txt">>}}
OtherEntries ==
    {DirEntry(<<"b", "md">>, "file", FirstDay, Absent),
     DirEntry(<<"c", "TXT">>, "file", FirstDay, Absent),
     DirEntry(<<"a", "json">>, "file", FirstDay, Absent),
     DirEntry(<<"f", "txt">>, "directory", FirstDay, Absent),
     DirEntry(<<"g", "txt">>, "missing", FirstDay, Absent)}
Directories ==
    {entries \in UNION {[1..n -> BookEntries \cup OtherEntries] : n \in 0..MaxEntries} :
        \A i, j \in 1..Len(entries) : entries[i].name = entries[j].name => i = j}

\* file.endsWith('.' + ext)
endsWith(name, ext) == Len(name) >= 2 /\ name[Len(name)] = ext

\* The loop of getAllBooksInDirectory from entry i on.  A stat that throws
\* leaves the loop: the catch is around the whole loop.
RECURSIVE BooksFrom(_, _, _)
BooksFrom(dirPath, files, i) ==
    IF i > Len(files) THEN <<>>
    ELSE IF ~endsWith(files[i].name, "txt") THEN BooksFrom(dirPath, files, i + 1)
    ELSE IF files[i].type = "missing" THEN <<>>
    ELSE IF files[i].type # "file" THEN BooksFrom(dirPath, files, i + 1)
    ELSE <<IF Loaded(files[i].sidecar) # Null THEN Loaded(files[i].sidecar)
           ELSE NewConfig(join(dirPath, files[i].name), 0, files[i].mtime)>>
         \o BooksFrom(dirPath, files, i + 1)

\* Array.prototype.sort with (a, b) => time(b) - time(a): stable, so a book
\* goes behind every book that is not older than it.
RECURSIVE SortedInsert(_, _)
SortedInsert(books, book) ==
    IF books = <<>> THEN <<book>>
    ELSE IF getTime(Head(books).lastReadTime) >= getTime(book.lastReadTime)
    THEN <<Head(books)>> \o SortedInsert(Tail(books), book)
    ELSE <<book>> \o books

RECURSIVE sort(_)

\* Mutant of sort: the books stay in the order of the directory.
sort_NotAtAll(books) ==
    books

sort(books) ==
    IF books = <<>> THEN <<>>
    ELSE SortedInsert(sort(SubSeq(books, 1, Len(books) - 1)), books[Len(books)])

ShelfInit ==
    /\ readerProvider = 0
    /\ pc = [s \in Sessions |-> "new"]
    /\ lines = [s \in Sessions |-> <<>>]
    /\ currentLine = [s \in Sessions |-> 0]
    /\ chapters = [s \in Sessions |-> <<>>]
    /\ bookConfig = [s \in Sessions |-> Null]
    /\ saveProgressTimer = [s \in Sessions |-> 0]
    /\ sidecar = Absent
    /\ defaultChapterPattern = DefaultPattern
    /\ fileUri = [s \in Sessions |-> Doc]
    /\ configPath = [s \in Sessions |-> getConfigPath(Doc)]
    /\ now = FirstDay
    /\ dirEntries \in Directories
    /\ aReaderActive = FALSE
    /\ io = <<>>
    /\ lastOp = Op("init", 0, 0)
    /\ lastReport = [s \in Sessions |-> {}]
    /\ navSince = [s \in Sessions |-> {}]
    /\ burstCalls = [s \in Sessions |-> 0]
    /\ burstWrites = [s \in Sessions |-> 0]
    /\ closeSnap = [s \in Sessions |-> {}]
    /\ resumeDue = [s \in Sessions |-> {}]
    /\ nEvents = 0

\* BookConfigManager.getAllBooksInDirectory(dirPath); readable is false when
\* the folder does not exist or readdir throws.  Calls are counted.
getAllBooksInDirectory(dirPath, readable) ==
    /\ nEvents < MaxEvents
    /\ nEvents' = nEvents + 1
    /\ lastOp' = Op("getAllBooksInDirectory", 0,
                    [readable |-> readable,
                     books |-> IF readable THEN sort(BooksFrom(dirPath, dirEntries, 1))
                               ELSE <<>>])
    /\ UNCHANGED <<readerProvider, defaultChapterPattern, fileUri, configPath, now,
                   dirEntries, aReaderActive, sidecar, io, lastReport, navSince, burstCalls,
                   burstWrites, closeSnap, resumeDue>>
    /\ UNCHANGED sessionVars

ShelfNext == \E readable \in BOOLEAN : getAllBooksInDirectory(BooksDir, readable)

ShelfSpec == ShelfInit /\ [][ShelfNext]_vars

\* ------------------------------------------- every operation that meets a sidecar
\* Sessions that are opened, navigated, searched, reported to and closed while
\* the chapter pattern is changed and the bookshelf lists the folder, whose
\* other books are a.txt without a sidecar and e.txt with one.
OtherBooks ==
    <<DirEntry(<<"a", "txt">>, "file", FirstDay, Absent),
      DirEntry(<<"e", "txt">>, "file", DayBefore,
               JsonFile(stringify(ShelfConfig(<<"e", "txt">>, 1, DayBefore))))>>

FrameInit ==
    /\ readerProvider = 0
    /\ pc = [s \in Sessions |-> "new"]
    /\ lines = [s \in Sessions |-> <<>>]
    /\ currentLine = [s \in Sessions |-> 0]
    /\ chapters = [s \in Sessions |-> <<>>]
    /\ bookConfig = [s \in Sessions |-> Null]
    /\ saveProgressTimer = [s \in Sessions |-> 0]
    /\ sidecar \in {Absent, Corrupt}
    /\ defaultChapterPattern = DefaultPattern
    /\ fileUri = [s \in Sessions |-> Doc]
    /\ configPath = [s \in Sessions |-> getConfigPath(Doc)]
    /\ now = FirstDay
    /\ dirEntries = OtherBooks
    /\ aReaderActive = FALSE
    /\ io = <<>>
    /\ lastOp = Op("init", 0, 0)
    /\ lastReport = [s \in Sessions |-> {}]
    /\ navSince = [s \in Sessions |-> {}]
    /\ burstCalls = [s \in Sessions |-> 0]
    /\ burstWrites = [s \in Sessions |-> 0]
    /\ closeSnap = [s \in Sessions |-> {}]
    /\ resumeDue = [s \in Sessions |-> {}]
    /\ nEvents = 0

\* The webview's requestChapters message: sendChaptersToWebview posts the index.
requestChapters(s) ==
    /\ pc[s] = "shown"
    /\ nEvents < MaxEvents
    /\ nEvents' = nEvents + 1
    /\ lastOp' = Op("requestChapters", s, chapters[s])
    /\ UNCHANGED <<readerProvider, defaultChapterPattern, fileUri, configPath, now,
                   dirEntries, aReaderActive, sidecar, io, lastReport, navSince, burstCalls,
                   burstWrites, closeSnap, resumeDue>>
    /\ UNCHANGED sessionVars

FrameSearch == \E s \in Sessions : search(s, <<"a">>)
RequestChapters == \E s \in Sessions : requestChapters(s)
ListBooks == \E readable \in BOOLEAN : getAllBooksInDirectory(BooksDir, readable)

FrameNext ==
    \/ Open
    \/ ScrollUp
    \/ ScrollDown
    \/ JumpToLine
    \/ FrameSearch
    \/ RequestChapters
    \/ ListBooks
    \/ ReportProgress
    \/ Timer
    \/ Close
    \/ ConfigurePattern
    \/ IoRead
    \/ IoWrite
    \/ IoFail

FrameSpec == FrameInit /\ [][FrameNext]_vars

\* ------------------------------------------------------- loading a source file
\* The bytes readFile can return: every short file over ASCII bytes, line
\* feeds, carriage returns and high bytes.
Bytes == {"a", "\r", LF} \cup HighBytes
MaxBytes == MaxLines + 1
Buffers == UNION {[1..n -> Bytes] : n \in 0..MaxBytes}

\* aReader.openBook has made session 1 the reader; its show() awaits loadFile.
LoadInit ==
    /\ readerProvider = 1
    /\ pc = [s \in Sessions |-> IF s = 1 THEN "loadFile" ELSE "new"]
    /\ lines = [s \in Sessions |-> <<>>]
    /\ currentLine = [s \in Sessions |-> 0]
    /\ chapters = [s \in Sessions |-> <<>>]
    /\ bookConfig = [s \in Sessions |-> Null]
    /\ saveProgressTimer = [s \in Sessions |-> 0]
    /\ sidecar = Absent
    /\ defaultChapterPattern = DefaultPattern
    /\ fileUri = [s \in Sessions |-> Doc]
    /\ configPath = [s \in Sessions |-> getConfigPath(Doc)]
    /\ now = FirstDay
    /\ dirEntries = <<>>
    /\ aReaderActive = FALSE
    /\ io = <<>>
    /\ lastOp = Op("openBook", 1, 0)
    /\ lastReport = [s \in Sessions |-> {}]
    /\ navSince = [s \in Sessions |-> {}]
    /\ burstCalls = [s \in Sessions |-> 0]
    /\ burstWrites = [s \in Sessions |-> 0]
    /\ closeSnap = [s \in Sessions |-> {}]
    /\ resumeDue = [s \in Sessions |-> {}]
    /\ nEvents = 0

\* What loadFile leaves alone; show() goes on to loadConfig.
LoadFrame(s) ==
    /\ pc' = [pc EXCEPT ![s] = "loadConfig"]
    /\ UNCHANGED <<readerProvider, defaultChapterPattern, fileUri, configPath, now,
                   dirEntries, aReaderActive, sidecar, io, currentLine, chapters, bookConfig,
                   saveProgressTimer>>
    /\ UNCHANGED historyVars

\* Mutant of loadFile: the text is split at a carriage return as well, and a
\* carriage return before a line feed ends the line with it.
RECURSIVE SplitLines(_)
SplitLines(text) ==
    IF \A i \in 1..Len(text) : text[i] \notin {LF, "\r"} THEN <<text>>
    ELSE LET k == CHOOSE i \in 1..Len(text) :
                      text[i] \in {LF, "\r"} /\ \A j \in 1..(i - 1) : text[j] \notin {LF, "\r"}
             n == IF text[k] = "\r" /\ k < Len(text) /\ text[k + 1] = LF THEN k + 1 ELSE k
         IN <<SubSeq(text, 1, k - 1)>> \o SplitLines(SubSeq(text, n + 1, Len(text)))
loadFile_AnyLineEnd(s, buffer, labels) ==
    /\ pc[s] = "loadFile"
    /\ lines' = [lines EXCEPT ![s] = SplitLines(decodeBuffer(buffer, labels))]
    /\ lastOp' = Op("loadFile", s, [buffer |-> buffer, labels |-> labels,
                                    content |-> decodeBuffer(buffer, labels)])
    /\ LoadFrame(s)

\* loadFile when readFile returns buffer, on a runtime that knows labels:
\* this.content is the decoded text and this.lines its split at line feeds.
loadFile(s, buffer, labels) ==
    /\ pc[s] = "loadFile"
    /\ lines' = [lines EXCEPT ![s] = Split(decodeBuffer(buffer, labels))]
    /\ lastOp' = Op("loadFile", s, [buffer |-> buffer, labels |-> labels,
                                    content |-> decodeBuffer(buffer, labels)])
    /\ LoadFrame(s)

\* loadFile when readFile throws: the error is shown and the lines stay empty.
loadFileFailed(s) ==
    /\ pc[s] = "loadFile"
    /\ lines' = lines
    /\ lastOp' = Op("loadFileFailed", s, 0)
    /\ LoadFrame(s)

LoadFile ==
    \E s \in Sessions :
        pc[s] = "loadFile" /\ \E buffer \in Buffers, labels \in LabelSets : loadFile(s, buffer, labels)
LoadFileFailed == \E s \in Sessions : loadFileFailed(s)

LoadNext ==
    \/ LoadFile
    \/ LoadFileFailed

LoadSpec == LoadInit /\ [][LoadNext]_vars

\* ------------------------------------------------------- the timeout handle
\* The session's timer in detail: in the specification below saveProgressTimer
\* holds the handle kept in this.saveProgressTimer (0 for undefined) and the
\* handles of the timeouts that are scheduled and have neither fired nor been
\* cleared.  A handle stays in the field after its timeout fired or was cleared.
NoTimer == [handle |-> 0, pending |-> {}]

\* if (this.saveProgressTimer) { clearTimeout(this.saveProgressTimer); }
clearTimeout(timer) ==
    IF timer.handle # 0 THEN [timer EXCEPT !.pending = @ \ {timer.handle}] ELSE timer

\* this.saveProgressTimer = setTimeout(...), which returns handle.
setTimeout(timer, handle) == [handle |-> handle, pending |-> timer.pending \cup {handle}]

TimerInit ==
    /\ readerProvider = 0
    /\ pc = [s \in Sessions |-> "new"]
    /\ lines = [s \in Sessions |-> <<>>]
    /\ currentLine = [s \in Sessions |-> 0]
    /\ chapters = [s \in Sessions |-> <<>>]
    /\ bookConfig = [s \in Sessions |-> Null]
    /\ saveProgressTimer = [s \in Sessions |-> NoTimer]
    /\ sidecar = Absent
    /\ defaultChapterPattern = DefaultPattern
    /\ fileUri = [s \in Sessions |-> Doc]
    /\ configPath = [s \in Sessions |-> getConfigPath(Doc)]
    /\ now = FirstDay
    /\ dirEntries = <<>>
    /\ aReaderActive = FALSE
    /\ io = <<>>
    /\ lastOp = Op("init", 0, 0)
    /\ lastReport = [s \in Sessions |-> {}]
    /\ navSince = [s \in Sessions |-> {}]
    /\ burstCalls = [s \in Sessions |-> 0]
    /\ burstWrites = [s \in Sessions |-> 0]
    /\ closeSnap = [s \in Sessions |-> {}]
    /\ resumeDue = [s \in Sessions |-> {}]
    /\ nEvents = 0

\* TxtReaderProvider.updateProgress; the new handle is one never used before.
TimerUpdateProgress(s, line) ==
    /\ pc[s] = "shown"
    /\ nEvents < MaxEvents
    /\ nEvents' = nEvents + 1
    /\ currentLine' = [currentLine EXCEPT ![s] = line]
    /\ saveProgressTimer' = [saveProgressTimer EXCEPT ![s] =
                                setTimeout(clearTimeout(@), nEvents + 1)]
    /\ lastOp' = Op("updateProgress", s, [line |-> line, before |-> saveProgressTimer[s]])
    /\ UNCHANGED <<readerProvider, defaultChapterPattern, fileUri, configPath, now,
                   dirEntries, aReaderActive, pc, lines, chapters, bookConfig, sidecar, io, lastReport,
                   navSince, burstCalls, burstWrites, closeSnap, resumeDue>>

\* A scheduled timeout fires and calls saveProgressNow.
TimerElapses(s, handle) ==
    /\ handle \in saveProgressTimer[s].pending
    /\ saveProgressTimer' = [saveProgressTimer EXCEPT ![s].pending = @ \ {handle}]
    /\ io' = Append(io, saveProgressNow(s, "timer"))
    /\ lastOp' = Op("timerFire", s, [handle |-> handle, before |-> saveProgressTimer[s]])
    /\ UNCHANGED <<readerProvider, defaultChapterPattern, fileUri, configPath, now,
                   dirEntries, aReaderActive, pc, lines, currentLine, chapters, bookConfig, sidecar>>
    /\ UNCHANGED historyVars

\* Mutant of TimerDispose: the handle is dropped once it has been cleared.
TimerDispose_DropsHandle(s) ==
    /\ pc[s] = "shown"
    /\ io' = Append(io, saveProgressNow(s, "close"))
    /\ saveProgressTimer' = [saveProgressTimer EXCEPT ![s] =
                                [clearTimeout(@) EXCEPT !.handle = 0]]
    /\ pc' = [pc EXCEPT ![s] = "disposed"]
    /\ aReaderActive' = FALSE
    /\ lastOp' = Op("dispose", s, [before |-> saveProgressTimer[s]])
    /\ UNCHANGED <<readerProvider, defaultChapterPattern, fileUri, configPath, now,
                   dirEntries, lines, currentLine, chapters, bookConfig, sidecar>>
    /\ UNCHANGED historyVars

\* panel.onDidDispose
TimerDispose(s) ==
    /\ pc[s] = "shown"
    /\ io' = Append(io, saveProgressNow(s, "close"))
    /\ saveProgressTimer' = [saveProgressTimer EXCEPT ![s] = clearTimeout(@)]
    /\ pc' = [pc EXCEPT ![s] = "disposed"]
    /\ aReaderActive' = FALSE
    /\ lastOp' = Op("dispose", s, [before |-> saveProgressTimer[s]])
    /\ UNCHANGED <<readerProvider, defaultChapterPattern, fileUri, configPath, now,
                   dirEntries, lines, currentLine, chapters, bookConfig, sidecar>>
    /\ UNCHANGED historyVars

TimerReport ==
    \E s \in Sessions : \E line \in 0..(Len(lines[s]) - 1) : TimerUpdateProgress(s, line)
TimerFires ==
    \E s \in Sessions : \E handle \in saveProgressTimer[s].pending : TimerElapses(s, handle)
TimerClose == \E s \in Sessions : TimerDispose(s)

TimerNext ==
    \/ Open
    \/ TimerReport
    \/ TimerFires
    \/ TimerClose
    \/ IoRead
    \/ IoWrite
    \/ IoFail

TimerSpec == TimerInit /\ [][TimerNext]_vars

\* ------------------------------------------------ a sidecar that was moved
\* Updates of Doc when the book's folder was moved or its sidecar copied from
\* another folder: the config stored beside Doc can record another filePath.
\* In the specification below sidecar holds the content of every sidecar path.
OldDoc == Path("e", Doc.name)
SidecarPaths == {getConfigPath(Doc), getConfigPath(OldDoc)}
MovedConfigs == {[config EXCEPT !.filePath = p] : config \in StoredBefore, p \in {Doc, OldDoc}}

MovedInit ==
    /\ readerProvider = 0
    /\ pc = [s \in Sessions |-> "new"]
    /\ lines = [s \in Sessions |-> <<>>]
    /\ currentLine = [s \in Sessions |-> 0]
    /\ chapters = [s \in Sessions |-> <<>>]
    /\ bookConfig = [s \in Sessions |-> Null]
    /\ saveProgressTimer = [s \in Sessions |-> 0]
    /\ \E here \in {Absent, Corrupt} \cup {JsonFile(stringify(config)) : config \in MovedConfigs},
          there \in {Absent} \cup {JsonFile(stringify(config)) :
                                      config \in {c \in MovedConfigs : c.filePath = OldDoc}} :
          sidecar = [p \in SidecarPaths |-> IF p = getConfigPath(Doc) THEN here ELSE there]
    /\ defaultChapterPattern = DefaultPattern
    /\ fileUri = [s \in Sessions |-> Doc]
    /\ configPath = [s \in Sessions |-> getConfigPath(Doc)]
    /\ now = FirstDay
    /\ dirEntries = <<>>
    /\ aReaderActive = FALSE
    /\ io = <<>>
    /\ lastOp = Op("init", 0, 0)
    /\ lastReport = [s \in Sessions |-> {}]
    /\ navSince = [s \in Sessions |-> {}]
    /\ burstCalls = [s \in Sessions |-> 0]
    /\ burstWrites = [s \in Sessions |-> 0]
    /\ closeSnap = [s \in Sessions |-> {}]
    /\ resumeDue = [s \in Sessions |-> {}]
    /\ nEvents = 0

\* A call on Doc up to its first await: loadConfig derives the sidecar path
\* from the path it is given.
MovedBegin(c) ==
    /\ nEvents < MaxEvents
    /\ nEvents' = nEvents + 1
    /\ io' = Append(io, IF sidecar[getConfigPath(Doc)] = Absent
                        THEN AfterLoad(c, Absent) ELSE c)
    /\ lastOp' = Op(c.call, 0, c)
    /\ UNCHANGED <<sidecar, now>>
    /\ ManagerFrame

\* readFile settles and loadConfig returns.
MovedReadDone(i) ==
    /\ i \in 1..Len(io)
    /\ io[i].at = "read"
    /\ io' = [io EXCEPT ![i] = AfterLoad(@, sidecar[getConfigPath(Doc)])]
    /\ lastOp' = Op("loaded", 0, io'[i])
    /\ UNCHANGED <<sidecar, now, nEvents>>
    /\ ManagerFrame

\* saveConfig(config) settles: it derives the sidecar path from config.filePath.
MovedWriteSettles(i, written) ==
    /\ i \in 1..Len(io)
    /\ io[i].at = "write"
    /\ \E file \in writeFile(sidecar[getConfigPath(io[i].config.filePath)],
                            stringify(io[i].config), written) :
          sidecar' = [sidecar EXCEPT ![getConfigPath(io[i].config.filePath)] = file]
    /\ io' = Remove(io, i)
    /\ lastOp' = Op(IF written THEN "saved" ELSE "saveFailed", 0,
                    [call |-> io[i], before |-> sidecar, result |-> written,
                     loadedFrom |-> getConfigPath(Doc),
                     writtenTo |-> getConfigPath(io[i].config.filePath)])
    /\ UNCHANGED <<now, nEvents>>
    /\ ManagerFrame

MovedUpdateProgress ==
    \E args \in ProgressArgs : MovedBegin(Call("updateProgress", args[1], args[2], NoPattern))
MovedUpdateChapterPattern ==
    \E pattern \in PatternInputs : MovedBegin(Call("updateChapterPattern", 0, 0, pattern))
MovedRead == \E i \in 1..Len(io) : MovedReadDone(i)
MovedWrite == \E i \in 1..Len(io), written \in BOOLEAN : MovedWriteSettles(i, written)

MovedNext ==
    \/ MovedUpdateProgress
    \/ MovedUpdateChapterPattern
    \/ MovedRead
    \/ ManagerStat
    \/ MovedWrite

MovedSpec == MovedInit /\ [][MovedNext]_vars

\* --------------------------------------------------- several panels at once
\* aReader.openBook issued while earlier panels are still open: each call
\* makes a provider and a panel of its own; readerProvider is the latest, and
\* the earlier panels stay open until the user closes them.
PanelOpenBook(s) ==
    /\ pc[s] = "new"
    /\ \A r \in Sessions : r < s => pc[r] # "new"
    /\ readerProvider' = s
    /\ pc' = [pc EXCEPT ![s] = "loadFile"]
    /\ lastOp' = Op("openBook", s, 0)
    /\ UNCHANGED <<lines, currentLine, chapters, bookConfig, saveProgressTimer, sidecar,
                   defaultChapterPattern, fileUri, configPath, now, dirEntries,
                   aReaderActive, io>>
    /\ UNCHANGED historyVars

PanelOpen == \E s \in Sessions : PanelOpenBook(s) \/ LoadFileDone(s) \/ LoadConfigDone(s)

PanelNext ==
    \/ PanelOpen
    \/ Close
    \/ IoRead
    \/ IoWrite
    \/ IoFail

PanelSpec == Init /\ [][PanelNext]_vars

\* ------------------------------------------------------------------- claims
LastWas(name, s) == lastOp.op = name /\ lastOp.sid = s
Holds(content, positions) == content.kind = "config" /\ content.progress \in positions

\* C1: N >= 1 updateProgress calls, each made while the timer of the previous
\* one is still pending, followed by silence: the timer starts exactly one
\* sidecar write, and that write carries the argument of the N-th call.
C1_OneTimerWritePerBurst ==
    \A s \in Sessions :
        /\ burstWrites[s] <= 1
        /\ (pc[s] = "shown" /\ lastReport[s] # {} /\ saveProgressTimer[s] = 0)
              => burstWrites[s] = 1
        /\ (LastWas("timerFire", s) /\ navSince[s] = {})
              => lastOp.arg \in lastReport[s]

C1_Witness ==
    \E s \in Sessions :
        /\ LastWas("timerFire", s)
        /\ burstCalls[s] = 2
        /\ navSince[s] = {}
        /\ burstWrites[s] = 1
        /\ saveProgressTimer[s] = 0

\* C2 as stated: when the panel closes while the timer of updateProgress(v) is
\* pending, the sidecar holds progress v once the write started by the close
\* has completed.
C2_AsStated ==
    \A s \in Sessions :
        (LastWas("closeWritten", s) /\ \E snap \in closeSnap[s] : snap.pending)
            => Holds(sidecar, lastReport[s])

\* C2 amended: the same, provided no scrollUp, scrollDown or jumpToLine ran
\* between the updateProgress(v) call and the close.
C2_FlushOnClose ==
    \A s \in Sessions :
        (LastWas("closeWritten", s)
           /\ \E snap \in closeSnap[s] : snap.pending /\ ~snap.nav)
            => Holds(sidecar, lastReport[s])

C2_Witness ==
    \E s \in Sessions :
        /\ LastWas("closeWritten", s)
        /\ \E snap \in closeSnap[s] : snap.pending /\ ~snap.nav
        /\ Holds(sidecar, lastReport[s])
        /\ burstWrites[s] = 0

\* C3: after a final close, once every sidecar read and write has completed
\* (in whatever order), the sidecar holds the argument of the latest
\* updateProgress call; nothing navigated between that call and the close,
\* and no write was refused.
C3_LatestValuePersisted ==
    \A s \in Sessions :
        (/\ pc[s] = "disposed"
         /\ io = <<>>
         /\ lastReport[s] # {}
         /\ \E snap \in closeSnap[s] : ~snap.nav)
            => Holds(sidecar, lastReport[s])

\* C4 as stated (liveness): after updateProgress(v) on an open session the
\* sidecar eventually holds v or the argument of a later updateProgress call.
C4_AsStated ==
    \A s \in Sessions :
        (lastOp.op = "updateProgress" /\ lastOp.sid = s)
            ~> Holds(sidecar, lastReport[s])

\* C4 amended (liveness): ... eventually holds v, the argument of a later
\* updateProgress call, or a position that scrollUp, scrollDown or jumpToLine
\* set after the latest such call.
C4_EventuallySaved ==
    \A s \in Sessions :
        (lastOp.op = "updateProgress" /\ lastOp.sid = s)
            ~> Holds(sidecar, lastReport[s] \cup navSince[s])

C4_Witness ==
    \E s \in Sessions :
        /\ LastWas("timerWritten", s)
        /\ pc[s] = "shown"
        /\ Holds(sidecar, lastReport[s])
        /\ lastReport[s] # {}

\* C5: closing the panel starts exactly one sidecar write, carrying currentLine
\* and the line count as they are at that moment, and clears the timer: no
\* timer write is started for a closed session.
C5_CloseFlushesOnce ==
    /\ [][\A s \in Sessions :
            (pc[s] = "shown" /\ pc'[s] = "disposed")
               => /\ Len(io') = Len(io) + 1
                  /\ SubSeq(io', 1, Len(io)) = io
                  /\ io'[Len(io')].origin = "close"
                  /\ io'[Len(io')].progress = currentLine[s]
                  /\ io'[Len(io')].totalLines = Len(lines[s])
                  /\ saveProgressTimer'[s] = 0]_vars
    /\ [][\A s \in Sessions :
            (lastOp'.op = "timerFire" /\ lastOp'.sid = s) => pc[s] = "shown"]_vars
    /\ [](\A s \in Sessions : pc[s] = "disposed" => saveProgressTimer[s] = 0)

C5_Witness ==
    \E s \in Sessions :
        /\ LastWas("dispose", s)
        /\ \E snap \in closeSnap[s] : snap.pending /\ snap.line = lastOp.arg
        /\ saveProgressTimer[s] = 0
        /\ Len(io) = 1

\* C6: a document is closed, the write started by the close completes
\* successfully, and the same path is opened again: when the new session has
\* opened, its currentLine is the currentLine the earlier session had at close.
C6_ResumeRoundTrip ==
    \A s \in Sessions :
        (LastWas("shown", s) /\ resumeDue[s] # {}) => currentLine[s] \in resumeDue[s]

\* C7: when show() has finished opening, currentLine is the progress of the
\* sidecar it read if that was readable, and 0 otherwise, also when scroll
\* commands ran while the file and the sidecar were being read.
C7_OpenPosition ==
    \A s \in Sessions :
        LastWas("shown", s)
            => currentLine[s] = (IF bookConfig[s] # Null THEN bookConfig[s].progress ELSE 0)

\* C8: after every scrollUp or scrollDown on an opened session, currentLine
\* lies in [0, totalLines - 1]; for a session without lines (its file could
\* not be read) the range is read as the single position 0.
C8_ScrollStaysInRange ==
    \A s \in Sessions :
        ((LastWas("scrollUp", s) \/ LastWas("scrollDown", s)) /\ pc[s] = "shown")
            => (0 <= currentLine[s] /\ currentLine[s] <= Max(0, Len(lines[s]) - 1))

\* C9: scrollDown at currentLine = totalLines - 1 and scrollUp at
\* currentLine = 0 leave currentLine unchanged, for every step.
C9_BoundarySaturation ==
    \A s \in Sessions :
        /\ (LastWas("scrollDown", s) /\ lastOp.arg = Len(lines[s]) - 1)
              => currentLine[s] = lastOp.arg
        /\ (LastWas("scrollUp", s) /\ lastOp.arg = 0)
              => currentLine[s] = 0

C9_Witness ==
    \E s \in Sessions :
        /\ LastWas("scrollDown", s)
        /\ Len(lines[s]) = MaxLines
        /\ lastOp.arg = Len(lines[s]) - 1
        /\ currentLine[s] = lastOp.arg

\* C10: jumpToLine(n) sets currentLine to n if and only if 0 <= n < totalLines;
\* for every other n it changes nothing of the session (currentLine, chapters,
\* the pending timer), and it never touches anything else.
C10_JumpToLine ==
    [][\A s \in Sessions :
          (lastOp'.op = "jumpToLine" /\ lastOp'.sid = s)
             => /\ IF 0 <= lastOp'.arg /\ lastOp'.arg < Len(lines[s])
                   THEN currentLine'[s] = lastOp'.arg
                   ELSE currentLine'[s] = currentLine[s]
                /\ UNCHANGED <<pc, lines, chapters, bookConfig, saveProgressTimer,
                               sidecar, io, readerProvider>>]_vars

C10_Witness ==
    \E s \in Sessions :
        /\ LastWas("jumpToLine", s)
        /\ lastOp.arg = MaxLines
        /\ currentLine[s] # lastOp.arg
        /\ saveProgressTimer[s] = 1

\* C11 as stated: when the reader command's pattern change to p has been
\* written and the open session rescanned, the session's chapter index is the
\* scan of its lines under p.
C11_RescanUsesNewPattern ==
    \A s \in Sessions :
        (lastOp.op = "patternWritten" /\ lastOp.sid = s /\ pc[s] = "shown")
            => chapters[s] = (IF Compiles(lastOp.arg)
                              THEN ScanFrom(lines[s], lastOp.arg, 1) ELSE <<>>)

\* C12 as stated: whenever a pattern change has been written while a session
\* is open, that session was rescanned, whoever issued the change.
C12_EveryChangeRescans ==
    \A s \in Sessions :
        (lastOp.op = "patternWritten" /\ pc[s] = "shown") => lastOp.sid = s

\* C15: in every state every session's chapter index is strictly ascending by
\* line and every chapter line is an index of the session's lines.
C15_ChaptersOrderedInRange ==
    \A s \in Sessions :
        /\ \A i \in 1..Len(chapters[s]) :
              0 <= chapters[s][i].line /\ chapters[s][i].line < Len(lines[s])
        /\ \A i \in 1..(Len(chapters[s]) - 1) :
              chapters[s][i].line < chapters[s][i + 1].line

C15_Witness ==
    \E s \in Sessions :
        /\ pc[s] = "shown"
        /\ Len(chapters[s]) = 2
        /\ chapters[s][2].line = Len(lines[s]) - 1

\* The pattern a scan of session s resolves in the current state.
ResolvedPattern(s) ==
    IF bookConfig[s] # Null /\ bookConfig[s].chapterPattern \notin {NoPattern, EmptyPattern}
    THEN bookConfig[s].chapterPattern
    ELSE defaultChapterPattern

\* C16: a scan (at open or a rescan) whose active pattern does not compile
\* leaves the chapter index empty and the session open; a rescan changes
\* neither lines, currentLine nor the pending timer; and the session still
\* takes scrollDown, search, scrollUp, jumpToLine and the close with its flush.
C16_BadPatternEmptyIndex ==
    /\ [](\A s \in Sessions :
            (lastOp.op \in {"shown", "patternWritten"} /\ lastOp.sid = s
               /\ ~Compiles(ResolvedPattern(s)))
                => /\ chapters[s] = <<>>
                   /\ (lastOp.op = "shown" => pc[s] = "shown")
                   /\ (pc[s] = "shown" /\ nEvents < MaxEvents)
                         => /\ ENABLED scrollDown(s, 1)
                            /\ ENABLED search(s, <<"a">>)
                            /\ ENABLED scrollUp(s, 1)
                            /\ ENABLED jumpToLine(s, 0)
                   /\ pc[s] = "shown" => ENABLED Dispose(s))
    /\ [][\A s \in Sessions :
            (lastOp'.op = "patternWritten" /\ lastOp'.sid = s)
               => /\ lines'[s] = lines[s]
                  /\ currentLine'[s] = currentLine[s]
                  /\ pc'[s] = pc[s]
                  /\ saveProgressTimer'[s] = saveProgressTimer[s]]_vars

C16_Witness ==
    \E s \in Sessions :
        /\ LastWas("scrollDown", s)
        /\ pc[s] = "shown"
        /\ ~Compiles(ResolvedPattern(s))
        /\ chapters[s] = <<>>
        /\ Len(lines[s]) = MaxLines
        /\ currentLine[s] = Len(lines[s]) - 1

\* The text of a line between its first and its last non-space character.
Trimmed(line) ==
    LET inked == {i \in 1..Len(line) : ~IsSpace(line[i])}
    IN IF inked = {} THEN <<>>
       ELSE SubSeq(line, CHOOSE i \in inked : \A j \in inked : i <= j,
                         CHOOSE i \in inked : \A j \in inked : i >= j)

\* Session s has just been rescanned.
Rescanned(s) == lastOp.op = "reloadChapters" /\ lastOp.sid = s

\* The index of the lines of ls whose trimmed text matches patternStr.
IndexUnder(ls, patternStr, index) ==
    LET matching == {i \in 0..(Len(ls) - 1) : Test(patternStr, Trimmed(ls[i + 1]))}
    IN /\ \A i \in matching :
             Cardinality({k \in 1..Len(index) : index[k].line = i}) = 1
       /\ \A k \in 1..Len(index) :
             /\ index[k].line \in matching
             /\ index[k].name = Trimmed(ls[index[k].line + 1])

\* C13 as stated: a scan uses the document's chapterPattern whenever the
\* loaded config has one (the empty pattern included), and the global default
\* only without a config or without a chapterPattern in it.
C13_AsStated ==
    \A s \in Sessions :
        Rescanned(s)
            => LET used == IF bookConfig[s] # Null
                                /\ bookConfig[s].chapterPattern # NoPattern
                             THEN bookConfig[s].chapterPattern
                             ELSE defaultChapterPattern
               IN IF Compiles(used) THEN IndexUnder(lines[s], used, chapters[s])
                  ELSE chapters[s] = <<>>

\* C13 amended: a scan uses the document's chapterPattern whenever the loaded
\* config has a non-empty one, and the global default only without a config,
\* without a chapterPattern in it, or with an empty one.
C13_PatternResolution ==
    \A s \in Sessions :
        Rescanned(s)
            => LET own == IF bookConfig[s] = Null THEN NoPattern
                          ELSE bookConfig[s].chapterPattern
                   used == IF own \in Patterns \ {EmptyPattern} THEN own
                           ELSE defaultChapterPattern
               IN IF Compiles(used) THEN IndexUnder(lines[s], used, chapters[s])
                  ELSE chapters[s] = <<>>

C13_Witness ==
    \E s \in Sessions :
        /\ Rescanned(s)
        /\ bookConfig[s] # Null
        /\ bookConfig[s].chapterPattern = "a"
        /\ defaultChapterPattern = "^#"
        /\ Len(chapters[s]) = MaxLines
        /\ ~IndexUnder(lines[s], defaultChapterPattern, chapters[s])

\* C14: after a scan whose pattern compiles, the chapter index has exactly one
\* entry for each line whose trimmed text matches and none for any other line;
\* an entry's line is the line's index and its name the trimmed text.
C14_ScanExact ==
    \A s \in Sessions :
        (Rescanned(s) /\ Compiles(ResolvedPattern(s)))
            => /\ IndexUnder(lines[s], ResolvedPattern(s), chapters[s])
               /\ Len(chapters[s]) =
                     Cardinality({i \in 1..Len(lines[s]) :
                                    Test(ResolvedPattern(s), Trimmed(lines[s][i]))})

C14_Witness ==
    \E s \in Sessions :
        /\ Rescanned(s)
        /\ ResolvedPattern(s) = "^#"
        /\ Len(lines[s]) = MaxLines
        /\ Len(chapters[s]) = 1
        /\ chapters[s][1].line = MaxLines - 1
        /\ chapters[s][1].name # lines[s][MaxLines]

\* Whether term occurs in line as a contiguous run of characters.
Occurs(term, line) ==
    \E k \in 0..(Len(line) - Len(term)) : SubSeq(line, k + 1, k + Len(term)) = term

\* C17: search(term) returns exactly the lines whose raw text contains term,
\* in ascending line order, each with its index and its trimmed text; the
\* count is the number of results (0 when no line contains term); and search
\* changes nothing of the session.
C17_SearchExact ==
    /\ [](\A s \in Sessions :
            (lastOp.op = "search" /\ lastOp.sid = s)
                => LET results == lastOp.arg.results
                       searchTerm == lastOp.arg.searchTerm
                       hits == {i \in 0..(Len(lines[s]) - 1) :
                                  Occurs(searchTerm, lines[s][i + 1])}
                   IN /\ {results[k].line : k \in 1..Len(results)} = hits
                      /\ Len(results) = Cardinality(hits)
                      /\ lastOp.arg.count = Cardinality(hits)
                      /\ \A k \in 1..(Len(results) - 1) :
                            results[k].line < results[k + 1].line
                      /\ \A k \in 1..Len(results) :
                            results[k].content = Trimmed(lines[s][results[k].line + 1]))
    /\ [][lastOp'.op = "search"
            => UNCHANGED <<readerProvider, pc, lines, currentLine, chapters, bookConfig,
                           saveProgressTimer, sidecar, defaultChapterPattern, io>>]_vars

C17_Witness ==
    \E s \in Sessions :
        /\ lastOp.op = "search" /\ lastOp.sid = s
        /\ lastOp.arg.searchTerm = <<"\r">>
        /\ lastOp.arg.count = 1
        /\ Len(lines[s]) = MaxLines
        /\ lastOp.arg.results[1].line = MaxLines - 1
        /\ ~Occurs(lastOp.arg.searchTerm, lastOp.arg.results[1].content)
        /\ saveProgressTimer[s] = 1

\* The base name and the extension of a file name as the sidecar rule reads
\* them: the extension is the last dot-separated part, if there are two or more.
BaseNameOf(p) == IF Len(p.name) >= 2 THEN SubSeq(p.name, 1, Len(p.name) - 1) ELSE p.name
ExtensionOf(p) == IF Len(p.name) >= 2 THEN p.name[Len(p.name)] ELSE ""
Derived(s) == configPath[s] # NoPath

\* C18 as stated: the same source path always derives the same sidecar path,
\* and two source paths that differ in directory or in base name never derive
\* the same one.
C18_NoCollision ==
    \A s, t \in Sessions :
        (Derived(s) /\ Derived(t))
            => /\ fileUri[s] = fileUri[t] => configPath[s] = configPath[t]
               /\ (\/ fileUri[s].dir # fileUri[t].dir
                   \/ BaseNameOf(fileUri[s]) # BaseNameOf(fileUri[t]))
                     => configPath[s] # configPath[t]

\* C19 as stated: two source files in one directory with the same base name
\* and different extensions derive the same sidecar path.
C19_SameBookCollides ==
    \A s, t \in Sessions :
        (/\ Derived(s) /\ Derived(t)
         /\ fileUri[s].dir = fileUri[t].dir
         /\ BaseNameOf(fileUri[s]) = BaseNameOf(fileUri[t])
         /\ ExtensionOf(fileUri[s]) # "" /\ ExtensionOf(fileUri[t]) # ""
         /\ ExtensionOf(fileUri[s]) # ExtensionOf(fileUri[t]))
            => configPath[s] = configPath[t]

\* C20: a loadConfig that directly follows a successful saveConfig(c) returns
\* a config equal to c in every field, lastReadTime included.
C20_SaveLoadRoundTrip ==
    [][(lastOp.op = "saveConfig" /\ lastOp.arg.result /\ lastOp'.op = "loadConfig")
          => bookConfig'[lastOp'.sid] = lastOp.arg.config]_vars

C20_Witness ==
    \E s \in Sessions :
        /\ LastWas("loadConfig", s)
        /\ sidecar.kind = "json"
        /\ Len(sidecar.content) = Len(ConfigKeys) - 1
        /\ bookConfig[s] # Null
        /\ bookConfig[s].chapterPattern = <<>>
        /\ bookConfig[s].bookmarks = <<<<0, MaxLines>>>>
        /\ bookConfig[s].progress = 0 - 1
        /\ bookConfig[s].lastReadTime = "2026-01-02T00:00:00.000Z"

\* C21: a loadConfig on a sidecar that is missing, cannot be read or does not
\* parse returns null (it does not throw) and leaves the sidecar as it found
\* it; and no loadConfig, whatever it finds, changes the sidecar.
C21_LoadFailsSoft ==
    [][\A s \in Sessions :
          (lastOp'.op = "loadConfig" /\ lastOp'.sid = s)
             => /\ sidecar' = sidecar
                /\ sidecar.kind # "json" => bookConfig'[s] = Null]_vars

C21_Witness ==
    \E s \in Sessions :
        /\ LastWas("loadConfig", s)
        /\ sidecar = Truncated
        /\ bookConfig[s] = Null
        /\ nEvents = 2

\* An update's saveConfig has just returned true; the call it ended.
Saved(name) == lastOp.op = "saved" /\ lastOp.arg.call.call = name
\* No other writer: the sidecar the write replaced is the one the call loaded.
Alone == lastOp.arg.before = lastOp.arg.call.loaded

\* C22 as stated: when saveConfig's write fails, saveConfig returns false, the
\* error is shown to the user, a config stored before is still stored, and the
\* update ends there: it leaves the calls in flight and starts no other write.
C22_FailedWriteLeavesSidecar ==
    [][lastOp'.op = "saveFailed"
          => /\ ~lastOp'.arg.result
             /\ lastOp'.arg.shown
             /\ sidecar.kind = "json" => sidecar' = sidecar
             /\ \E i \in 1..Len(io) : io' = Remove(io, i) /\ io[i] = lastOp'.arg.call]_vars

\* The fields neither update sets.
KeptKeys == {"filePath", "fileName", "bookmarks"}

\* C23: an updateProgress(p, t) whose write completes stores progress p,
\* totalLines t and the time of the save as lastReadTime; over an existing
\* config (no other writer in between) it leaves filePath, fileName,
\* chapterPattern and bookmarks as they were; when loadConfig found no config
\* the stored one has no chapterPattern.
C23_UpdateProgressFrame ==
    Saved("updateProgress")
        => LET c == lastOp.arg.call
               stored == parse(sidecar.content)
           IN /\ stored.progress = c.progress
              /\ stored.totalLines = c.totalLines
              /\ stored.lastReadTime = toISOString(c.savedAt)
              /\ (Alone /\ lastOp.arg.before.kind = "json")
                    => \A key \in KeptKeys \cup {"chapterPattern"} :
                          stored[key] = parse(lastOp.arg.before.content)[key]
              /\ c.loaded.kind # "json" => stored.chapterPattern = <<>>

C23_Witness ==
    /\ Saved("updateProgress")
    /\ Alone
    /\ lastOp.arg.before.kind = "json"
    /\ parse(lastOp.arg.before.content).chapterPattern = <<"#">>
    /\ parse(lastOp.arg.before.content).bookmarks # <<>>
    /\ parse(sidecar.content).progress # parse(lastOp.arg.before.content).progress
    /\ parse(sidecar.content).lastReadTime = toISOString(FirstDay + 1)

\* C24: an updateChapterPattern over an existing config (no other writer in
\* between) stores that config with chapterPattern replaced and every other
\* field, progress and totalLines among them, as it was; and the stored
\* progress of an existing config changes only when an updateProgress write
\* completes, or a write of a call that loaded before another writer.
C24_OnlyProgressMovesPosition ==
    /\ []((Saved("updateChapterPattern") /\ Alone /\ lastOp.arg.before.kind = "json")
            => LET stored == parse(sidecar.content)
                   was == parse(lastOp.arg.before.content)
               IN /\ stored.progress = was.progress
                  /\ stored.totalLines = was.totalLines
                  /\ stored.chapterPattern = <<lastOp.arg.call.pattern>>
                  /\ \A key \in KeptKeys \cup {"lastReadTime"} : stored[key] = was[key])
    /\ [][(/\ sidecar.kind = "json"
           /\ sidecar'.kind = "json"
           /\ \/ parse(sidecar'.content).progress # parse(sidecar.content).progress
              \/ parse(sidecar'.content).totalLines # parse(sidecar.content).totalLines)
             => /\ lastOp'.op = "saved"
                /\ \/ lastOp'.arg.call.call = "updateProgress"
                   \/ lastOp'.arg.before # lastOp'.arg.call.loaded]_vars

C24_Witness ==
    /\ Saved("updateChapterPattern")
    /\ Alone
    /\ lastOp.arg.before.kind = "json"
    /\ parse(lastOp.arg.before.content).chapterPattern = <<"#">>
    /\ parse(sidecar.content).chapterPattern = <<"a">>
    /\ parse(sidecar.content).progress = 1
    /\ parse(sidecar.content).totalLines = MaxLines + 1

\* C25: an updateChapterPattern(pattern) whose loadConfig found no config
\* stores progress 0, totalLines 0 and chapterPattern = pattern, whatever the
\* size of the source file its stat saw; and a stored totalLines of 0 becomes
\* another number only when an updateProgress write completes, or a write of a
\* call that loaded before another writer.
C25_NewConfigHasNoLines ==
    /\ []((Saved("updateChapterPattern") /\ lastOp.arg.call.loaded.kind # "json")
            => LET stored == parse(sidecar.content)
               IN /\ stored.progress = 0
                  /\ stored.totalLines = 0
                  /\ stored.chapterPattern = <<lastOp.arg.call.pattern>>)
    /\ [][(/\ sidecar.kind = "json"
           /\ parse(sidecar.content).totalLines = 0
           /\ sidecar'.kind = "json"
           /\ parse(sidecar'.content).totalLines # 0)
             => /\ lastOp'.op = "saved"
                /\ \/ lastOp'.arg.call.call = "updateProgress"
                   \/ lastOp'.arg.before # lastOp'.arg.call.loaded]_vars

C25_Witness ==
    /\ Saved("updateChapterPattern")
    /\ lastOp.arg.call.loaded = Corrupt
    /\ lastOp.arg.call.stats.size = Len(FileOfLines(MaxLines))
    /\ parse(sidecar.content).totalLines = 0
    /\ parse(sidecar.content).chapterPattern = <<"a">>
    /\ nEvents = 1

\* C26 as stated: every config an update saves, through updateProgress or
\* through updateChapterPattern, carries as lastReadTime the time of that save.
C26_EverySaveStampsTime ==
    lastOp.op = "saved"
        => parse(sidecar.content).lastReadTime = toISOString(lastOp.arg.call.savedAt)

\* The fields a call sets itself.
SetKeys(c) ==
    IF c.call = "updateProgress" THEN {"progress", "totalLines", "lastReadTime"}
    ELSE {"chapterPattern"}

\* C27: when a write completes over a sidecar that another writer has changed
\* since this call loaded it, the sidecar then holds, in every field the call
\* does not set, what the call had loaded, so the other writer's change is
\* gone; a completing write leaves the other calls in flight untouched, and
\* every call that has reached its write can complete it.
C27_LaterWriteWins ==
    /\ []((lastOp.op = "saved" /\ ~Alone /\ lastOp.arg.call.loaded.kind = "json")
            => LET c == lastOp.arg.call
                   stored == parse(sidecar.content)
               IN /\ \A key \in (KeptKeys \cup {"progress", "totalLines", "lastReadTime",
                                                "chapterPattern"}) \ SetKeys(c) :
                        stored[key] = parse(c.loaded.content)[key]
                  /\ c.call = "updateProgress" => stored.progress = c.progress
                  /\ c.call = "updateChapterPattern" => stored.chapterPattern = <<c.pattern>>)
    /\ [](\A i \in 1..Len(io) : io[i].at = "write" => ENABLED ManagerWriteDone(i))
    /\ [][lastOp'.op = "saved"
            => \E i \in 1..Len(io) : io' = Remove(io, i) /\ io[i] = lastOp'.arg.call]_vars

C27_Witness ==
    /\ Saved("updateProgress")
    /\ ~Alone
    /\ io = <<>>
    /\ lastOp.arg.call.loaded.kind = "json"
    /\ lastOp.arg.before.kind = "json"
    /\ parse(lastOp.arg.before.content).chapterPattern = <<"a">>
    /\ parse(sidecar.content).chapterPattern = <<"#">>
    /\ parse(sidecar.content).progress = 0

\* C30 as stated: no update ends in an unhandled failure, whatever its file
\* system calls do: no call's promise rejects.
C30_NoUnhandledFailure ==
    lastOp.op # "rejected"

\* The entries of the directory that are regular files named *.txt, and the
\* config the listing owes each of them.
BookFiles ==
    {i \in 1..Len(dirEntries) :
        /\ dirEntries[i].type = "file"
        /\ Len(dirEntries[i].name) >= 2
        /\ dirEntries[i].name[Len(dirEntries[i].name)] = "txt"}
Owed(i) ==
    IF dirEntries[i].sidecar.kind = "json" THEN parse(dirEntries[i].sidecar.content)
    ELSE [filePath |-> Path(BooksDir, dirEntries[i].name),
          fileName |-> dirEntries[i].name,
          progress |-> 0, totalLines |-> 0,
          lastReadTime |-> toISOString(dirEntries[i].mtime),
          chapterPattern |-> <<>>, bookmarks |-> <<>>]
Listed == lastOp.op = "getAllBooksInDirectory" /\ lastOp.arg.readable

\* C28 as stated: a listing of a readable directory returns exactly one config
\* for every regular file named *.txt (the stored config if it loads, else the
\* default with progress 0, totalLines 0 and the file's modification time) and
\* none for any other entry.
C28_OneConfigPerBook ==
    Listed
        => LET books == lastOp.arg.books
           IN /\ Len(books) = Cardinality(BookFiles)
              /\ \E of \in [1..Len(books) -> BookFiles] :
                    /\ \A k, m \in 1..Len(books) : of[k] = of[m] => k = m
                    /\ \A k \in 1..Len(books) : books[k] = Owed(of[k])

\* C29: the books a listing returns are in descending order of lastReadTime:
\* of two adjacent books the first is not older than the second.
C29_SortedByLastRead ==
    lastOp.op = "getAllBooksInDirectory"
        => \A k \in 1..(Len(lastOp.arg.books) - 1) :
              getTime(lastOp.arg.books[k].lastReadTime)
                  >= getTime(lastOp.arg.books[k + 1].lastReadTime)

\* A listing of two books that the directory holds oldest first: one with a
\* stored lastReadTime, one dated by its modification time.
C29_Witness ==
    /\ Listed
    /\ BookFiles = {1, 2}
    /\ dirEntries[1].sidecar = Absent
    /\ dirEntries[2].sidecar.kind = "json"
    /\ Len(lastOp.arg.books) = 2
    /\ lastOp.arg.books[1] = Owed(2)
    /\ lastOp.arg.books[2] = Owed(1)
    /\ getTime(Owed(1).lastReadTime) < getTime(Owed(2).lastReadTime)

\* C31 as stated: every config that a sidecar write of a session stores has
\* progress >= 0, whatever opening, scrolling, jumping, reporting, timer
\* firing and closing preceded it, also for a session whose file was not read.
C31_WrittenProgressNotNegative ==
    [][\A i \in 1..Len(io) : IoWriteDone(i) => sidecar'.progress >= 0]_vars

\* The handlers that only read, and the completions of a sidecar write.
ReadOnlyOps == {"openBook", "loadFile", "shown", "scrollUp", "scrollDown", "jumpToLine",
                "search", "requestChapters", "getAllBooksInDirectory"}
WriteStarts == {"timerFire", "dispose", "configurePattern"}
WriteEnds == {"timerWritten", "closeWritten", "patternWritten"}

Loads(s) == lastOp.op = "loadFile" /\ lastOp.sid = s

\* C33: for every buffer that readFile returns, the decoded text is that of
\* the first of strict UTF-8, GBK and the default decoder that does not throw,
\* in this order; the default decoder never throws, so the load yields a text
\* and at least one line.
C33_DecodeNeverFails ==
    \A s \in Sessions :
        Loads(s)
            => LET buffer == lastOp.arg.buffer
                   attempts ==
                       <<[ok |-> ValidUtf8(buffer), text |-> Utf8Decode(buffer)],
                         [ok |-> "gbk" \in lastOp.arg.labels, text |-> GbkDecode(buffer)],
                         [ok |-> TRUE, text |-> Utf8Decode(buffer)]>>
                   first == CHOOSE k \in 1..3 :
                               attempts[k].ok /\ \A j \in 1..(k - 1) : ~attempts[j].ok
               IN /\ lastOp.arg.content = attempts[first].text
                  /\ \A i \in 1..Len(lastOp.arg.content) :
                        lastOp.arg.content[i]
                            \in {"a", "\r", LF, "u+e9", Replacement}
                                    \cup {"gbk+" \o lead \o trail :
                                             lead \in HighBytes,
                                             trail \in HighBytes \cup {"a"}}
                  /\ Len(lines[s]) >= 1

\* A malformed file was loaded on a runtime without GBK: the two earlier
\* attempts threw and the default decoder read the high byte as the
\* replacement character.
C33_Witness ==
    /\ Loads(1)
    /\ ~ValidUtf8(lastOp.arg.buffer)
    /\ "gbk" \notin lastOp.arg.labels
    /\ lastOp.arg.content = <<Replacement, "a">>

\* Array.prototype.join('\n') and the number of line feeds of a text.
RECURSIVE Joined(_)
Joined(ls) ==
    IF Len(ls) = 1 THEN ls[1]
    ELSE Joined(SubSeq(ls, 1, Len(ls) - 1)) \o <<LF>> \o ls[Len(ls)]
LineFeeds(text) == Cardinality({i \in 1..Len(text) : text[i] = LF})

\* C36: after a load that read the file, the session's lines are the decoded
\* text cut at its line feeds and nowhere else: one line more than there are
\* line feeds (so at least one, also for an empty file), no line holds a line
\* feed, and the lines joined by line feeds are the text again, so a carriage
\* return before a line feed is still in its line.
C36_SplitOnLineFeedOnly ==
    \A s \in Sessions :
        Loads(s)
            => /\ Len(lines[s]) = LineFeeds(lastOp.arg.content) + 1
               /\ \A i \in 1..Len(lines[s]) : LineFeeds(lines[s][i]) = 0
               /\ Joined(lines[s]) = lastOp.arg.content

\* A file whose first line ends in a carriage return and a line feed.
C36_Witness ==
    /\ Loads(1)
    /\ lastOp.arg.content = <<"a", "\r", LF>>
    /\ lines[1] = << <<"a", "\r">>, <<>> >>

\* C34: a session never has more than one timeout pending: an updateProgress
\* call leaves exactly one, whether or not one was pending before it, and a
\* timeout that starts a write is the single pending one, so a timeout that
\* was cleared starts none.
C34_OnePendingTimer ==
    /\ [](\A s \in Sessions : saveProgressTimer[s] \in {0, 1})
    /\ [][\A s \in Sessions :
            (lastOp'.op = "updateProgress" /\ lastOp'.sid = s)
               => saveProgressTimer'[s] = 1]_vars
    /\ [][\A s \in Sessions :
            (lastOp'.op = "timerFire" /\ lastOp'.sid = s)
               => (saveProgressTimer[s] = 1 /\ saveProgressTimer'[s] = 0
                   /\ Len(io') = Len(io) + 1)]_vars

\* A second updateProgress came while the timeout of the first was pending.
C34_Witness ==
    \E s \in Sessions :
        /\ LastWas("updateProgress", s)
        /\ burstCalls[s] = 2
        /\ burstWrites[s] = 0
        /\ saveProgressTimer[s] = 1

\* Nothing is pending for the handle in the field: none was ever scheduled, or
\* its timeout has fired, or it was cleared.
Idle(timer) == timer.handle \notin timer.pending

\* C35: clearing the pending timeout is idempotent.  In every reachable state
\* clearing twice is the same as clearing once, and clearing when nothing is
\* pending (no timeout was scheduled, or it has fired) changes nothing; close
\* applies it whatever the timer's state: it can always run, it leaves the
\* timer unchanged when nothing was pending, and nothing is pending after it.
C35_CancelIdempotent ==
    /\ [](\A s \in Sessions :
            /\ clearTimeout(clearTimeout(saveProgressTimer[s]))
                  = clearTimeout(saveProgressTimer[s])
            /\ Idle(saveProgressTimer[s])
                  => clearTimeout(saveProgressTimer[s]) = saveProgressTimer[s]
            /\ pc[s] = "shown" => ENABLED TimerClose)
    /\ [][\A s \in Sessions :
            (lastOp'.op = "dispose" /\ lastOp'.sid = s)
               => /\ saveProgressTimer'[s].pending = {}
                  /\ Idle(saveProgressTimer[s])
                        => saveProgressTimer'[s] = saveProgressTimer[s]]_vars

\* The panel was closed after the session's timeout had fired: the handle is
\* still in the field and clearing it changed nothing.
C35_Witness ==
    \E s \in Sessions :
        /\ LastWas("dispose", s)
        /\ lastOp.arg.before.handle # 0
        /\ lastOp.arg.before.pending = {}
        /\ saveProgressTimer[s] = lastOp.arg.before

\* C37: the write a timeout starts carries the session's currentLine as it is
\* when the timeout fires, and that is what the write stores when it
\* completes: a position set by scrollUp, scrollDown or jumpToLine after the
\* latest updateProgress call is written instead of that call's argument.
C37_TimerWritesCurrentLine ==
    /\ [][\A s \in Sessions :
            (lastOp'.op = "timerFire" /\ lastOp'.sid = s)
               => /\ io'[Len(io')].origin = "timer"
                  /\ io'[Len(io')].progress = currentLine[s]
                  /\ lastOp'.arg = currentLine[s]]_vars
    /\ [][\A i \in 1..Len(io) :
            (IoWriteDone(i) /\ io[i].origin = "timer")
               => sidecar'.progress = io[i].progress]_vars

\* A timeout fired after a scroll had moved the session away from the
\* reported line: the write it started carries the scrolled position.
C37_Witness ==
    \E s \in Sessions :
        /\ LastWas("timerFire", s)
        /\ navSince[s] # {}
        /\ lastOp.arg \in navSince[s]
        /\ lastOp.arg \notin lastReport[s]
        /\ io[Len(io)].progress = lastOp.arg

\* C38 as stated: an update of Doc writes the sidecar that getConfigPath
\* derives from Doc, the one it loaded, and no other, whatever filePath the
\* stored config records.
C38_WritesWhereItLoaded ==
    [][lastOp'.op = "saved"
          => /\ lastOp'.arg.writtenTo = lastOp'.arg.loadedFrom
             /\ \A p \in SidecarPaths \ {getConfigPath(Doc)} : sidecar'[p] = sidecar[p]]_vars

\* C39 as stated: when the stat of one entry named *.txt throws during a
\* listing, the result still holds the config owed to every regular file
\* named *.txt of the directory.
C39_ListingSurvivesBadEntry ==
    (/\ Listed
     /\ \E j \in 1..Len(dirEntries) :
           dirEntries[j].type = "missing" /\ endsWith(dirEntries[j].name, "txt"))
        => \A i \in BookFiles :
              \E k \in 1..Len(lastOp.arg.books) : lastOp.arg.books[k] = Owed(i)

\* C40 as stated: whenever at least one reader panel is open the aReaderActive
\* context is true, in whatever order panels were opened and closed.
C40_ActiveWhilePanelOpen ==
    (\E s \in Sessions : pc[s] = "shown") => aReaderActive

====
